---- MODULE Spec2Model ----
(***************************************************************************)
(* Stateful batch extraction of stdatalog_core (HSDatalog_v2):             *)
(* get_data_and_timestamps_batch, its nested reader __extract_data and the *)
(* decoder __process_datalog, for a Sensor component.                      *)
(*                                                                         *)
(* A raw file is a repetition of packets: a 4-byte counter followed by a   *)
(* payload of data_packet_size bytes, possibly ended by a truncated        *)
(* packet.  Bytes are modelled by identity, not by value: payload byte g   *)
(* of the counter-stripped stream is the integer g >= 0, counter byte j of *)
(* packet p is the negative integer -(4p + j + 1).  Times are integers; a  *)
(* sample time is kept as a numerator over TimeScale (= samples_per_ts).   *)
(***************************************************************************)
EXTENDS Integers, Sequences, FiniteSets, TLC

VARIABLES desc, comp_status, calls

vars == <<desc, comp_status, calls>>

\* ---------------------------------------------------------------- bounds
MaxPackets == 4
MaxTime == 4
MaxCalls == 2

\* ------------------------------------------------------ program constants
data_protocol_size == 4
ts_byte_size == 8

\* None of Python: an absent dictionary key or an unset local.
None == 0 - 1000000

Min(a, b) == IF a < b THEN a ELSE b
Max(a, b) == IF a > b THEN a ELSE b
Abs(a) == IF a < 0 THEN 0 - a ELSE a
\* math.ceil(a / b) and math.floor(a / b) for b > 0 (a may be negative)
CeilDiv(a, b) == 0 - ((0 - a) \div b)
FloorDiv(a, b) == a \div b
Drop(s, k) == SubSeq(s, k + 1, Len(s))
Take(s, k) == SubSeq(s, 1, Min(k, Len(s)))

\* ------------------------------------------------------- frame geometry
\* desc: the descriptor, the raw file and the acquisition of one component
\*   dps      data_packet_size (payload bytes of one packet)
\*   spts     samples_per_ts
\*   sbytes   s_dim * s_data_type_len
\*   odr      samples per time unit
\*   npk      whole packets in the file, tail: bytes of a truncated last packet
\*   skip_at  packet whose counter jumps by one extra payload (-1: none)
\*   ts_off   embedded timestamp of frame 0 minus the frame period
\*   gap_at   frame after which one frame period is missing (-1: none)
\*   dur_slack  frame periods between the last frame and the acquisition's end
\*   seeded   the caller created the cursor with prev_data_byte_counter = 0
\*   tstep    the granularity of the caller's time windows
\*   writes_first_chunk  the caller writes is_first_chunk before each call
\* frames split as if none had a timestamp
timestamp_byte_size_none(d) == 0

\* lines 905-911
timestamp_byte_size(d) == IF d.spts # 0 THEN ts_byte_size ELSE 0
dataframe_byte_size(d) == IF d.spts # 0 THEN d.spts * d.sbytes ELSE d.sbytes
frame_size(d) == dataframe_byte_size(d) + timestamp_byte_size(d)
cmplt_pkt_size(d) == d.dps + data_protocol_size
file_size(d) == d.npk * cmplt_pkt_size(d) + d.tail
nof_data_packet(d) == file_size(d) \div cmplt_pkt_size(d)
\* samples_per_ts as __process_datalog resolves it for a Sensor
samples_per_ts(d) == IF d.spts # 0 THEN d.spts ELSE dataframe_byte_size(d) \div d.sbytes
\* frame_period = samples_per_ts / odr, in time units (odr divides it here)
frame_period(d) == samples_per_ts(d) \div d.odr
TimeScale(d) == samples_per_ts(d)

\* ------------------------------------------------------------- raw file
CounterByte(p, j) == 0 - (data_protocol_size * p + j + 1)
IsCounterByte(b) == b < 0
\* the byte at file offset i
FileByte(d, i) ==
  LET p == i \div cmplt_pkt_size(d)
      o == i % cmplt_pkt_size(d)
  IN IF o < data_protocol_size THEN CounterByte(p, o)
     ELSE p * d.dps + (o - data_protocol_size)
\* f.seek(idx); f.read(len)
ReadFile(d, idx, len) ==
  LET avail == IF idx >= file_size(d) THEN 0 ELSE Min(len, file_size(d) - idx)
  IN [j \in 1..avail |-> FileByte(d, idx + j - 1)]
\* the counter the device wrote in packet p
PacketCounter(d, p) ==
  p * d.dps + (IF d.skip_at # -1 /\ p >= d.skip_at THEN d.dps ELSE 0)
\* a value no counter of the file has: four bytes that are not one counter
GarbageCounter == 0 - 7
\* struct.unpack('<I', counter_bytes)[0]
UnpackCounter(d, cb) ==
  IF /\ IsCounterByte(cb[1])
     /\ (0 - cb[1] - 1) % data_protocol_size = 0
     /\ \A j \in 1..data_protocol_size : cb[j] = cb[1] - (j - 1)
  THEN PacketCounter(d, (0 - cb[1] - 1) \div data_protocol_size)
  ELSE GarbageCounter
\* the timestamp the device embedded in frame k
FrameTimestamp(d, k) ==
  d.ts_off + (k + 1) * frame_period(d)
    + (IF d.gap_at # -1 /\ k > d.gap_at THEN frame_period(d) ELSE 0)
\* the eight bytes after the data of the chest's first frame are the timestamp
\* field of one frame of the file
IsTimestampField(d, chest) ==
  LET b == chest[dataframe_byte_size(d) + 1]
  IN /\ b >= 0
     /\ b % frame_size(d) = dataframe_byte_size(d)
     /\ \A j \in 1..ts_byte_size : chest[dataframe_byte_size(d) + j] = b + (j - 1)
\* struct.unpack('d', byte_chest[dataframe_byte_size:frame_size])[0]: eight
\* bytes that are not one timestamp field decode to what the file's bytes make
\* of them, d.garbage
UnpackTimestamp(d, chest) ==
  IF IsTimestampField(d, chest)
  THEN FrameTimestamp(d, chest[dataframe_byte_size(d) + 1] \div frame_size(d))
  ELSE d.garbage

\* whole frames in the file's payload
nof_frames(d) ==
  (d.npk * d.dps + Max(d.tail - data_protocol_size, 0)) \div frame_size(d)
\* acq_info end_time - start_time: the time of the last frame, plus the slack
acquisition_duration(d) ==
  (IF d.spts # 0 THEN FrameTimestamp(d, nof_frames(d) - 1)
   ELSE nof_frames(d) \div d.odr) + d.dur_slack * frame_period(d)

\* ------------------------------------------------------ the cursor reads
\* comp_status.get(key, 0)
Get0(v) == IF v = None THEN 0 ELSE v
\* comp_status.get("is_first_chunk", False) and .get("is_first_chunk", True)
first_chunk_default_false(cs) == cs.is_first_chunk = "true"
first_chunk_default_true(cs) == cs.is_first_chunk # "false"

\* ---------------------------------------------------------- __extract_data
\* The locals of one invocation of the reader.  st is "run" while the packet
\* loop goes on, "break" once it left the loop, and otherwise names how the
\* invocation ended early: "short_read" (return [], None) or an exception.
\* The last fields are history, not program state: consumed, the chest bytes
\* emitted or discarded as frames; tolerated, the packets skipped as restart
\* artifacts; unchecked, the packets whose counter was read and not compared;
\* mismatched, the packets whose counter was not the stored one plus the
\* payload size; stop, which statement ended the packet loop; taken, the
\* data bytes put in the byte chest; garbled, whether a timestamp was decoded
\* from bytes that are not a timestamp field.
reader_locals(d, cs, q, last_index, missing_bytes) ==
  [cs |-> cs, last_index |-> last_index, missing_bytes |-> missing_bytes,
   saved_bytes |-> Get0(cs.saved_bytes),
   chest |-> <<>>, cap |-> (nof_data_packet(d) + 1) * d.dps, raw |-> <<>>,
   end_time |-> q.end_time, flag |-> FALSE, skip |-> FALSE,
   pts |-> None, xts |-> None, st |-> "run",
   consumed |-> <<>>, tolerated |-> <<>>, unchecked |-> <<>>,
   mismatched |-> <<>>, stop |-> "none", taken |-> <<>>, garbled |-> FALSE]

\* save_cursor storing the packet boundary itself in last_index
save_cursor_at_boundary(d, L, n, left, saved) ==
  LET bytes_processed == IF L.cs.is_same_dps THEN L.last_index
                         ELSE L.last_index + (n + 1) * cmplt_pkt_size(d)
  IN [L.cs EXCEPT !.is_same_dps = FALSE,
                  !.missing_bytes = left,
                  !.saved_bytes = saved,
                  !.last_index = bytes_processed]

\* save_cursor counting the processed bytes of a straddling packet from the
\* last_index the call started from
save_cursor_from_call_start(d, L, n, left, saved) ==
  LET bytes_processed == IF L.cs.is_same_dps THEN Get0(L.cs.last_index)
                         ELSE L.last_index + (n + 1) * cmplt_pkt_size(d)
  IN [L.cs EXCEPT !.is_same_dps = FALSE,
                  !.missing_bytes = left,
                  !.saved_bytes = saved,
                  !.last_index = bytes_processed - left]

\* lines 1103-1112 (and 1063-1072): the cursor stored when the target is reached;
\* left is byte_chest_index - extracted_data_length
save_cursor(d, L, n, left, saved) ==
  LET bytes_processed == IF L.cs.is_same_dps THEN L.last_index
                         ELSE L.last_index + (n + 1) * cmplt_pkt_size(d)
  IN [L.cs EXCEPT !.is_same_dps = FALSE,
                  !.missing_bytes = left,
                  !.saved_bytes = saved,
                  !.last_index = bytes_processed - left]

\* Python evaluates an argument or an assigned expression once: where a value
\* is used many times, CHOOSE ret \in {e : x \in {v}} : TRUE computes v once,
\* binds x to it, and is e.
\* lines 1077-1137: the frame loop over the byte chest for samples_per_ts > 0
RECURSIVE frame_loop(_, _, _, _)
frame_loop(d, q, locals, n) ==
  CHOOSE ret \in {
  IF Len(L.chest) < frame_size(d) THEN L
  ELSE
    LET fs == frame_size(d)
        ts == UnpackTimestamp(d, L.chest)
        first == first_chunk_default_false(L.cs)
    IN IF ts > q.start_time
       THEN LET raw2 == L.raw \o Take(L.chest, fs)
                setp == L.pts = None /\ first
                retry == setp /\ L.last_index # 0
                pts2 == IF setp THEN (IF L.last_index = 0 THEN L.cs.ioffset ELSE ts)
                        ELSE L.pts
                L2 == [L EXCEPT !.xts = ts, !.raw = raw2,
                                !.garbled = @ \/ ~IsTimestampField(d, L.chest),
                                !.consumed = @ \o Take(L.chest, fs)]
            IN IF L.end_time # -1 /\ ts >= L.end_time
               THEN IF retry
                    THEN [L2 EXCEPT !.pts = ts, !.flag = TRUE, !.stop = "look_back"]
                    ELSE [L2 EXCEPT !.pts = pts2, !.flag = TRUE, !.end_time = ts,
                            !.stop = "end_time",
                            !.cs = save_cursor(d, L, n, Len(L.chest) - fs, Len(raw2))]
               ELSE IF retry
                    THEN [L2 EXCEPT !.pts = ts, !.flag = TRUE, !.stop = "look_back",
                                    !.cs.prev_data_byte_counter = None]
                    ELSE frame_loop(d, q,
                           [L2 EXCEPT !.pts = pts2, !.chest = Drop(@, fs),
                                      !.cap = @ - fs], n)
       ELSE [L EXCEPT !.xts = ts,
                      !.garbled = @ \/ ~IsTimestampField(d, L.chest),
                      !.pts = IF first THEN ts ELSE @,
                      !.consumed = @ \o Take(L.chest, fs),
                      !.chest = Drop(@, fs), !.cap = @ - fs]
  : L \in {locals}} : TRUE

\* lines 1139-1155: the stops tested after the frame loop
after_frames(d, q, locals, n) ==
  CHOOSE ret \in {
  IF /\ L.cs.last_index = None
     /\ L.xts # None
     /\ (acquisition_duration(d) - L.xts) * d.odr < d.spts
  THEN [L EXCEPT !.flag = TRUE, !.st = "break", !.stop = "near_end",
         !.cs = [@ EXCEPT !.missing_bytes = Len(L.chest),
                          !.saved_bytes = Len(L.raw),
                          !.last_index = (L.last_index + (n + 1) * cmplt_pkt_size(d))
                                           - Len(L.chest)]]
  ELSE IF /\ L.last_index # 0
          /\ L.xts # None
          /\ L.xts < L.end_time
          /\ Len(L.chest) # 0
          /\ L.cs.missing_bytes # 0
       THEN [L EXCEPT !.flag = TRUE, !.st = "break", !.stop = "partial",
              !.cs = [@ EXCEPT !.missing_bytes = Len(L.chest),
                               !.saved_bytes = Len(L.raw),
                               !.last_index = L.last_index - Len(L.chest)]]
       ELSE IF L.flag THEN [L EXCEPT !.st = "break"] ELSE L
  : L \in {locals}} : TRUE

\* lines 1051-1155: append the data bytes to the byte chest and look for the target
fill_chest(d, q, L, n, data_bytes) ==
  IF Len(L.chest) + Len(data_bytes) > L.cap
  THEN [L EXCEPT !.st = "ValueError"]
  ELSE CHOOSE ret \in {
    IF timestamp_byte_size(d) = 0
    THEN IF Len(L1.chest) >= q.budget
         THEN [L1 EXCEPT !.raw = Take(L1.chest, q.budget),
                         !.consumed = @ \o Take(L1.chest, q.budget),
                         !.flag = TRUE, !.st = "break", !.stop = "budget",
                         !.cs = save_cursor(d, L1, n, Len(L1.chest) - q.budget,
                                            q.budget)]
         ELSE L1
    ELSE after_frames(d, q, frame_loop(d, q, [L1 EXCEPT !.xts = None], n), n)
    : L1 \in {[L EXCEPT !.chest = @ \o data_bytes, !.taken = @ \o data_bytes]}} : TRUE

\* the packet whose counter field the four bytes are, -1 when they are not one
PacketOf(cb) ==
  IF /\ Len(cb) = data_protocol_size
     /\ IsCounterByte(cb[1])
     /\ (0 - cb[1] - 1) % data_protocol_size = 0
     /\ \A j \in 1..data_protocol_size : cb[j] = cb[1] - (j - 1)
  THEN (0 - cb[1] - 1) \div data_protocol_size
  ELSE -1

\* lines 1032-1049: the counter check of one packet, then fill_chest
check_counter(d, q, L, n, data_bytes, counter_bytes) ==
  IF L.skip
  THEN fill_chest(d, q,
         [L EXCEPT !.unchecked = IF counter_bytes # <<>>
                                 THEN Append(@, PacketOf(counter_bytes)) ELSE @,
                   !.mismatched =
                     IF /\ counter_bytes # <<>>
                        /\ L.cs.prev_data_byte_counter # None
                        /\ UnpackCounter(d, counter_bytes) - L.cs.prev_data_byte_counter
                             # d.dps
                     THEN Append(@, PacketOf(counter_bytes)) ELSE @],
         n, data_bytes)
  ELSE IF Len(counter_bytes) # data_protocol_size
  THEN [L EXCEPT !.st = "struct.error"]
  ELSE
    LET counter == UnpackCounter(d, counter_bytes)
        data_byte_counter == L.cs.prev_data_byte_counter
    IN IF data_byte_counter = None
       THEN fill_chest(d, q, [L EXCEPT !.cs.prev_data_byte_counter = counter], n, data_bytes)
       ELSE IF counter - data_byte_counter # d.dps
       THEN IF first_chunk_default_true(L.cs) /\ n = 0 /\ data_byte_counter = 0
            THEN [L EXCEPT !.tolerated = Append(@, PacketOf(counter_bytes)),
                           !.mismatched = Append(@, PacketOf(counter_bytes))]
            ELSE [L EXCEPT !.st = "DataCorruptedException",
                           !.mismatched = Append(@, PacketOf(counter_bytes))]
       ELSE fill_chest(d, q, [L EXCEPT !.cs.prev_data_byte_counter = counter], n, data_bytes)

\* an end-of-file store that moves last_index on by one complete packet
end_of_file_cursor_moved_on(d, L, file_index) ==
  [L.cs EXCEPT !.missing_bytes = Len(L.chest),
               !.saved_bytes = Len(L.raw),
               !.last_index = file_index + cmplt_pkt_size(d)]

\* lines 997-1000: the cursor stored when file_index is at or after the end of
\* the file
end_of_file_cursor(d, L, file_index) ==
  [L.cs EXCEPT !.missing_bytes = Len(L.chest),
               !.saved_bytes = Len(L.raw),
               !.last_index = file_index]

\* lines 994-1030: one iteration of the packet loop: EOF, or the read of packet n
read_packet(d, q, L, n) ==
  LET file_index == L.last_index + n * cmplt_pkt_size(d)
      K == cmplt_pkt_size(d)
  IN IF file_index >= file_size(d)
     THEN [L EXCEPT !.st = "break", !.stop = "eof",
            !.cs = end_of_file_cursor(d, L, file_index)]
     ELSE IF file_index < 0
     THEN [L EXCEPT !.st = "OSError"]
     ELSE IF L.last_index # 0
     THEN IF L.saved_bytes # 0 /\ L.saved_bytes <= L.missing_bytes
          THEN LET raw_data == ReadFile(d, file_index, L.missing_bytes)
                   L1 == [L EXCEPT !.cs.is_same_dps = TRUE]
               IN IF Len(raw_data) < L.missing_bytes
                  THEN [L1 EXCEPT !.st = "short_read"]
                  ELSE check_counter(d, q,
                         [L1 EXCEPT !.skip = TRUE,
                                    !.last_index = @ + L.missing_bytes,
                                    !.missing_bytes = 0,
                                    !.cs.missing_bytes = 0],
                         n, raw_data, <<>>)
          ELSE LET raw_data == ReadFile(d, file_index, L.missing_bytes + K)
                   L1 == [L EXCEPT !.cs.is_same_dps = FALSE]
               IN IF Len(raw_data) < L.missing_bytes + K
                  THEN [L1 EXCEPT !.st = "short_read"]
                  ELSE check_counter(d, q,
                         [L1 EXCEPT !.last_index = @ + L.missing_bytes,
                                    !.missing_bytes = 0,
                                    !.cs.missing_bytes = 0],
                         n,
                         Take(raw_data, L.missing_bytes)
                           \o Drop(raw_data, L.missing_bytes + data_protocol_size),
                         SubSeq(raw_data, L.missing_bytes + 1,
                                L.missing_bytes + data_protocol_size))
     ELSE LET raw_data == ReadFile(d, file_index, K)
          IN IF Len(raw_data) + Len(L.chest) < K
             THEN [L EXCEPT !.st = "short_read"]
             ELSE check_counter(d, q, L, n, Drop(raw_data, data_protocol_size),
                                Take(raw_data, data_protocol_size))

\* line 993: for n in range(nof_data_packet + 1)
RECURSIVE packet_loop(_, _, _, _)
packet_loop(d, q, L, n) ==
  IF n > nof_data_packet(d) THEN [L EXCEPT !.st = "break"]
  ELSE CHOOSE ret \in {
         IF L1.st = "run" THEN packet_loop(d, q, L1, n + 1) ELSE L1
         : L1 \in {read_packet(d, q, L, n)}} : TRUE

\* lines 964-1160: __extract_data(start_time, end_time, nof_prev_timestamps)
\* q: [start_time, end_time, budget, start_idx]
extract_data(d, cs, q, nof_prev_timestamps) ==
  LET fresh_offset == Get0(cs.last_index) = 0 /\ q.start_idx # 0
      data_and_ts == nof_prev_timestamps * frame_size(d)
      nof_counters == CeilDiv(data_and_ts, d.dps)
      packet_bytes == nof_counters * data_protocol_size + data_and_ts
      last_index == IF fresh_offset THEN packet_bytes ELSE Get0(cs.last_index)
      missing_bytes ==
        IF fresh_offset
        THEN CeilDiv(packet_bytes, cmplt_pkt_size(d)) * cmplt_pkt_size(d) - packet_bytes
        ELSE Get0(cs.missing_bytes)
  IN CHOOSE ret \in {packet_loop(d, q, L, 0)
                     : L \in {reader_locals(d, cs, q, last_index, missing_bytes)}} : TRUE

\* ------------------------------------------------------ __process_datalog
\* interval_start with the frame's samples all put at the frame's timestamp
interval_start_at_frame(fp, prev, cur) == cur

\* interval_start on the signed step from prev to cur, for any frame period
interval_start_signed(fp, prev, cur) ==
  IF 100 * (cur - prev) > 133 * fp THEN cur - fp ELSE prev

\* lines 753-757: where the interpolation of a frame's sample times starts,
\* prev and cur being the timestamps before and of the frame
interval_start(fp, prev, cur) ==
  IF fp > 0 /\ 100 * Abs(cur - prev) > 133 * fp THEN cur - fp ELSE prev

\* an ioffset left at the time origin the call started from
ioffset_kept(tss) == tss[1]

\* lines 747 and 763: ss_stat["ioffset"] = timestamps[-1]; tss is the origin
\* followed by the timestamps of the frames
ioffset_update(tss) == tss[Len(tss)]

\* lines 600-810 for a Sensor without timestamp recovery, raw_flag = True.
\* Returns the samples (each the bytes of one sample), their times as
\* numerators over TimeScale, and the cursor with ioffset updated.
process_datalog(d, cs, raw, start_time, prev_timestamp) ==
  LET fs == frame_size(d)
      num_frames == Len(raw) \div fs
      sp == samples_per_ts(d)
      fp == frame_period(d)
      Frame(i) == SubSeq(raw, (i - 1) * fs + 1, i * fs)
      timestamp_first == IF start_time # 0 THEN start_time ELSE cs.ioffset
      origin == IF first_chunk_default_false(cs) THEN timestamp_first
                ELSE timestamp_first + fp
      timestamps ==
        IF timestamp_byte_size(d) # 0
        THEN [i \in 1..num_frames |-> UnpackTimestamp(d, Frame(i))]
        ELSE [i \in 1..num_frames |-> origin + (i - 1) * fp]
      data == [k \in 1..(num_frames * sp) |->
                 SubSeq(Frame(((k - 1) \div sp) + 1),
                        ((k - 1) % sp) * d.sbytes + 1,
                        (((k - 1) % sp) + 1) * d.sbytes)]
      head == IF start_time # 0 /\ first_chunk_default_false(cs)
              THEN (IF prev_timestamp # None THEN prev_timestamp ELSE cs.ioffset)
              ELSE cs.ioffset
      \* np.linspace(a, b, sp, endpoint=False)[j] * sp
      Lin(a, b, j) == sp * a + j * (b - a)
      interpolated(tss) ==
        [k \in 1..(num_frames * sp) |->
           LET ii == ((k - 1) \div sp) + 1
               j == (k - 1) % sp
           IN Lin(interval_start(fp, tss[ii], tss[ii + 1]), tss[ii + 1], j)]
      samples_times(tss) == IF sp > 1 THEN interpolated(tss) ELSE Tail(tss)
      valid(times) == {k \in 1..Len(times) : times[k] # (0 - 1) * TimeScale(d)}
      Keep(s, ok) == LET RECURSIVE kp(_)
                         kp(k) == IF k > Len(s) THEN <<>>
                                  ELSE (IF k \in ok THEN <<s[k]>> ELSE <<>>) \o kp(k + 1)
                     IN kp(1)
  IN IF num_frames = 0
     THEN [data |-> <<>>, times |-> <<>>, cs |-> cs]
     ELSE CHOOSE ret \in {
            [data |-> Keep(values, ok), times |-> Keep(times, ok),
             cs |-> [cs EXCEPT !.ioffset = ioffset_update(tss)]]
            : tss \in {<<head>> \o timestamps}, values \in {<<>> \o data},
              times \in {<<>> \o samples_times(<<head>> \o timestamps)},
              ok \in {valid(samples_times(<<head>> \o timestamps))}} : TRUE

\* --------------------------------------------- get_data_and_timestamps_batch
\* How far below 0 the model follows nof_prev_timestamps before it reports
\* that the look-back loop has not returned.
LookBackDepth == 2

\* lines 1162-1168: the look-back loop around the reader.  attempts counts
\* the invocations of the reader.
RECURSIVE look_back(_, _, _, _, _, _)
look_back(d, cs, q, nof_prev_timestamps, looping, attempts) ==
  CHOOSE ret \in {
  LET short == L.st = "short_read"
      out == [st |-> L.st, cs |-> L.cs,
              raw |-> IF short THEN <<>> ELSE L.raw,
              pts |-> IF short THEN None ELSE L.pts,
              consumed |-> L.consumed, tolerated |-> L.tolerated,
              unchecked |-> L.unchecked, mismatched |-> L.mismatched,
              stop |-> L.stop, taken |-> L.taken, garbled |-> L.garbled,
              nof_prev |-> nof_prev_timestamps, attempts |-> attempts,
              first_index |-> L.last_index]
  IN IF L.st \notin {"break", "short_read"} THEN out
     ELSE IF looping /\ out.pts # None /\ out.pts > q.start_time
     THEN IF nof_prev_timestamps - 1 < 0 - LookBackDepth
          THEN [out EXCEPT !.st = "no_return"]
          ELSE look_back(d, L.cs, q, nof_prev_timestamps - 1, looping, attempts + 1)
     ELSE out
  : L \in {extract_data(d, cs, q, nof_prev_timestamps)}} : TRUE

\* lines 918-922: the samples the file holds
tot_data_samples(d) ==
  LET tot_counters_bytes == nof_data_packet(d) * data_protocol_size
      tot_file_data_and_times_bytes == file_size(d) - tot_counters_bytes
      tot_timestamps_bytes ==
        (tot_file_data_and_times_bytes \div frame_size(d)) * timestamp_byte_size(d)
      tot_data_bytes == tot_file_data_and_times_bytes - tot_timestamps_bytes
  IN tot_data_bytes \div d.sbytes

\* a window that is never found empty before the reader runs
window_not_tested(d, start_time) == FALSE

\* lines 934-936 and 955-956: the window starts after the last sample of the
\* file (samples_per_ts = 0) or after the acquisition's end
window_is_empty(d, start_time) ==
  \/ d.spts = 0 /\ d.odr * start_time >= tot_data_samples(d)
  \/ start_time > acquisition_duration(d)

\* lines 846-1184 for a Sensor.  st is "ok" for a normal return and names the
\* exception otherwise; cs is comp_status as the call leaves it; short tells
\* that the reader gave up on a short read (return [], None); read that the
\* reader was invoked at all.
get_data_and_timestamps_batch(d, cs, start_time, end_time) ==
  LET start_sample_idx == d.odr * start_time
      start_data_bytes_idx == start_sample_idx * d.sbytes
      nof_timestamps_in_start ==
        IF d.spts # 0 THEN start_sample_idx \div d.spts ELSE 0
      sample_end0 == IF end_time # -1 THEN d.odr * end_time ELSE -1
      sample_end == IF sample_end0 > tot_data_samples(d) \/ sample_end0 = -1
                    THEN tot_data_samples(d) ELSE sample_end0
      sample_start == d.odr * start_time
      read_start_bytes == sample_start * dataframe_byte_size(d)
      read_end_bytes == sample_end * dataframe_byte_size(d)
      start_data_and_times_bytes_idx ==
        start_data_bytes_idx + nof_timestamps_in_start * timestamp_byte_size(d)
      nof_counter_in_start == start_data_and_times_bytes_idx \div d.dps
      start_idx == start_data_and_times_bytes_idx
                     + nof_counter_in_start * data_protocol_size
      last_timestamp == acquisition_duration(d)
      end_time2 == IF end_time = -1 \/ end_time > last_timestamp
                   THEN last_timestamp ELSE end_time
      q == [start_time |-> start_time, end_time |-> end_time2,
            budget |-> read_end_bytes - read_start_bytes, start_idx |-> start_idx]
      nof_prev_timestamps == Max(0, nof_timestamps_in_start - 2)
      fallback(c) ==
        IF c.last_index = None
        THEN [c EXCEPT !.missing_bytes = 0, !.saved_bytes = 0,
                       !.last_index = (nof_data_packet(d) + 1) * cmplt_pkt_size(d)]
        ELSE c
      result(R, st, c, data, times) ==
        [st |-> st, cs |-> c, data |-> data, times |-> times,
         short |-> R.st = "short_read", read |-> TRUE,
         pts |-> R.pts, consumed |-> R.consumed, tolerated |-> R.tolerated,
         unchecked |-> R.unchecked, mismatched |-> R.mismatched,
         stop |-> R.stop, taken |-> R.taken, garbled |-> R.garbled,
         nof_prev |-> R.nof_prev,
         attempts |-> R.attempts, first_index |-> R.first_index]
      decode(R) ==
        IF R.st \notin {"break", "short_read"}
        THEN result(R, R.st, R.cs, <<>>, <<>>)
        ELSE IF R.st = "short_read" /\ timestamp_byte_size(d) = 0
        THEN result(R, "TypeError", R.cs, <<>>, <<>>)
        ELSE CHOOSE ret \in {result(R, "ok", fallback(P.cs), P.data, P.times)
               : P \in {process_datalog(d, R.cs, R.raw, start_time, R.pts)}} : TRUE
      empty == [st |-> "ok", cs |-> cs, data |-> <<>>, times |-> <<>>,
                short |-> FALSE, read |-> FALSE,
                pts |-> None, consumed |-> <<>>, tolerated |-> <<>>,
                unchecked |-> <<>>, mismatched |-> <<>>, stop |-> "none",
                taken |-> <<>>, garbled |-> FALSE, nof_prev |-> 0, attempts |-> 0,
                first_index |-> None]
  IN IF window_is_empty(d, start_time) THEN empty
     ELSE CHOOSE ret \in {decode(R)
            : R \in {look_back(d, cs, q, nof_prev_timestamps,
                                nof_prev_timestamps # 0, 1)}} : TRUE

\* ----------------------------------------------------------- the system
PacketSizes == {8, 13, 21}

\* frame timing: ts_off and gap_at, and the slack of the acquisition's end
Profiles ==
  {[ts_off |-> 0, gap_at |-> -1, dur_slack |-> 0],
   [ts_off |-> 0, gap_at |-> -1, dur_slack |-> 1],
   [ts_off |-> 2, gap_at |-> -1, dur_slack |-> 0],
   [ts_off |-> 0, gap_at |-> 1, dur_slack |-> 1]}

\* what eight bytes that are not a timestamp field decode to: a time before
\* every start_time, or one after every end_time
GarbageValues == {0, 99}

CleanDescs ==
  {[dps |-> p, spts |-> s, sbytes |-> 1, odr |-> 1, npk |-> n, tail |-> 0,
    skip_at |-> -1, ts_off |-> f.ts_off * Max(s, 1), gap_at |-> f.gap_at,
    dur_slack |-> f.dur_slack, garbage |-> g, writes_first_chunk |-> w,
    seeded |-> FALSE, tstep |-> IF s = 0 THEN 5 ELSE s] :
     p \in PacketSizes, s \in {0, 1, 2}, n \in (MaxPackets - 1)..MaxPackets,
     f \in Profiles, g \in GarbageValues, w \in BOOLEAN}

ValidDescs == {d \in CleanDescs :
                 /\ nof_frames(d) >= 2
                 /\ d.spts = 0 => (d.ts_off = 0 /\ d.gap_at = -1 /\ d.garbage = 0)}

\* the files and callers the anomalies are put on
PlainDescs == {d \in ValidDescs : /\ d.npk = MaxPackets /\ d.spts < 2 /\ d.garbage = 0
                                  /\ d.ts_off = 0 /\ d.gap_at = -1 /\ d.dur_slack = 0}
\* a counter skip: from packet skip_at on, every counter is one payload ahead
CorruptDescs == {[d EXCEPT !.npk = n, !.skip_at = n \div 2] :
                   d \in PlainDescs, n \in {2, MaxPackets}}
\* a truncated trailing packet of tail bytes
TruncatedDescs == {[d EXCEPT !.tail = t] : d \in PlainDescs, t \in {2, 6}}
\* a caller that stores prev_data_byte_counter = 0 in the cursor it creates, on
\* a file whose first packet is a restart artifact (skip_at = 0) or not
SeededDescs == {[d EXCEPT !.seeded = TRUE, !.skip_at = j] :
                  d \in {e \in PlainDescs : e.dps > 8}, j \in {-1, 0}}

Descs == ValidDescs \cup CorruptDescs \cup TruncatedDescs \cup SeededDescs

fresh_cursor(d) ==
  [last_index |-> None, missing_bytes |-> None, saved_bytes |-> None,
   prev_data_byte_counter |-> IF d.seeded THEN 0 ELSE None,
   is_same_dps |-> FALSE, is_first_chunk |-> "unset", ioffset |-> 0]

Init ==
  /\ desc \in Descs
  /\ comp_status = fresh_cursor(desc)
  /\ calls = <<>>

TimePoints == {t * desc.tstep : t \in 0..MaxTime}

\* the caller: writes is_first_chunk when it is one that does, then calls
\* get_data_and_timestamps_batch and keeps what it returned
do_call(start_time, end_time) ==
  LET cs0 == IF desc.writes_first_chunk
             THEN [comp_status EXCEPT
                     !.is_first_chunk = IF calls = <<>> THEN "true" ELSE "false"]
             ELSE comp_status
  IN \E r \in {get_data_and_timestamps_batch(desc, cs0, start_time, end_time)} :
     /\ comp_status' = r.cs
     /\ calls' = Append(calls, [start_time |-> start_time, end_time |-> end_time,
                                before |-> cs0, res |-> [r EXCEPT !.cs = None]])
     /\ UNCHANGED desc

\* the end of the window the previous call asked for
previous_end ==
  LET c == calls[Len(calls)]
  IN IF c.end_time = -1 \/ c.end_time > acquisition_duration(desc)
     THEN acquisition_duration(desc) ELSE c.end_time

FirstCall ==
  /\ calls = <<>>
  /\ \E start_time \in TimePoints :
       \E end_time \in {-1} \cup {t \in TimePoints : t > start_time} :
         do_call(start_time, end_time)

NextCall ==
  /\ calls # <<>>
  /\ Len(calls) < MaxCalls
  /\ \E end_time \in {-1} \cup {t \in TimePoints : t > previous_end} :
       do_call(previous_end, end_time)

Next == FirstCall \/ NextCall

Spec == Init /\ [][Next]_vars

\* a caller that also asks, on a fresh cursor or on a used one, for a window
\* that starts after the acquisition's end
LateCall ==
  /\ Len(calls) < MaxCalls
  /\ \E start_time \in {acquisition_duration(desc) + k : k \in 1..2} :
       \E end_time \in {-1, start_time + 1} :
         do_call(start_time, end_time)

NextLate == FirstCall \/ NextCall \/ LateCall

SpecLate == Init /\ [][NextLate]_vars

\* ------------------------------------------ transport and component type
\* comp: what a call finds in the acquisition info and in the descriptor part
\* of comp_status
\*   interface  the acquisition's interface (0: sd card, 1: usb, 2: ble, 3: serial)
\*   has_dps    comp_status holds the payload-size field of that interface
\*   c_type     "sensor", "actuator" or "algorithm"
\*   has_odr    "odr" in comp_status
\*   supported  an actuator named as motor-control telemetry, an FFT algorithm
Interfaces == 0..4

\* the payload-size field the device configuration holds for an interface
dps_field(d, interface) ==
  IF interface = 0 THEN d.dps + data_protocol_size ELSE d.dps

\* a cursor that a failed transport selection has reset
transport_failure_resetting(cs, st) ==
  [st |-> st, cs |-> [cs EXCEPT !.last_index = None], data |-> <<>>,
   times |-> <<>>, short |-> FALSE, read |-> FALSE, pts |-> None,
   consumed |-> <<>>, tolerated |-> <<>>, unchecked |-> <<>>, mismatched |-> <<>>,
   stop |-> "none", taken |-> <<>>, garbled |-> FALSE, nof_prev |-> 0,
   attempts |-> 0, first_index |-> None]

\* a call that ends before the reader is invoked, by an exception or by a
\* return that st names; comp_status is left as it is
ends_before_read(cs, st) ==
  [st |-> st, cs |-> cs, data |-> <<>>, times |-> <<>>,
   short |-> FALSE, read |-> FALSE, pts |-> None,
   consumed |-> <<>>, tolerated |-> <<>>, unchecked |-> <<>>, mismatched |-> <<>>,
   stop |-> "none", taken |-> <<>>, garbled |-> FALSE, nof_prev |-> 0,
   attempts |-> 0, first_index |-> None]

\* lines 855-868: data_packet_size of the acquisition's interface; "raise"
\* outside an except clause is a RuntimeError, a missing key a KeyError
select_transport(d, comp) ==
  IF comp.interface \notin 0..3 THEN [st |-> "RuntimeError", dps |-> 0]
  ELSE IF ~comp.has_dps THEN [st |-> "KeyError", dps |-> 0]
  ELSE IF comp.interface = 0
  THEN [st |-> "ok", dps |-> dps_field(d, 0) - data_protocol_size]
  ELSE [st |-> "ok", dps |-> dps_field(d, comp.interface)]

\* lines 846-1238: get_data_and_timestamps_batch for any component.  A return
\* of (None, None) is st "None, None"; falling off the function's end is
\* st "None".
batch_entry(d, comp, cs, start_time, end_time) ==
  LET sel == select_transport(d, comp)
  IN IF sel.st # "ok" THEN ends_before_read(cs, sel.st)
     ELSE IF comp.c_type = "sensor" \/ (comp.c_type = "actuator" /\ comp.has_odr)
     THEN get_data_and_timestamps_batch([d EXCEPT !.dps = sel.dps], cs,
                                        start_time, end_time)
     ELSE IF comp.c_type = "actuator"
     THEN ends_before_read(cs, "None")
     ELSE ends_before_read(cs, "None, None")

\* sensors on every interface with and without the payload-size field; an
\* actuator with and without odr that is not motor-control telemetry; an
\* algorithm that is not an FFT
Components ==
  {[interface |-> i, has_dps |-> h, c_type |-> "sensor", has_odr |-> TRUE,
    supported |-> TRUE] : i \in Interfaces, h \in BOOLEAN}
  \cup {[interface |-> 1, has_dps |-> TRUE, c_type |-> "actuator", has_odr |-> o,
          supported |-> FALSE] : o \in BOOLEAN}
  \cup {[interface |-> 1, has_dps |-> TRUE, c_type |-> "algorithm",
          has_odr |-> FALSE, supported |-> FALSE]}

\* the caller, for a component it describes by comp
do_entry_call(comp, start_time, end_time) ==
  LET cs0 == IF desc.writes_first_chunk
             THEN [comp_status EXCEPT
                     !.is_first_chunk = IF calls = <<>> THEN "true" ELSE "false"]
             ELSE comp_status
  IN \E r \in {batch_entry(desc, comp, cs0, start_time, end_time)} :
     /\ comp_status' = r.cs
     /\ calls' = Append(calls, [start_time |-> start_time, end_time |-> end_time,
                                before |-> cs0, res |-> [r EXCEPT !.cs = None],
                                comp |-> comp])
     /\ UNCHANGED desc

InitEntry ==
  /\ desc \in PlainDescs
  /\ comp_status = fresh_cursor(desc)
  /\ calls = <<>>

FirstEntryCall ==
  /\ calls = <<>>
  /\ \E comp \in Components :
       \E end_time \in {-1, desc.tstep} : do_entry_call(comp, 0, end_time)

NextEntryCall ==
  /\ calls # <<>>
  /\ Len(calls) < MaxCalls
  /\ \E comp \in Components :
       \E end_time \in {-1, previous_end + desc.tstep} :
         do_entry_call(comp, previous_end, end_time)

NextEntry == FirstEntryCall \/ NextEntryCall

SpecEntry == InitEntry /\ [][NextEntry]_vars

\* ------------------------------------------------------- two components
\* Here desc, comp_status and calls hold, for the components "A" and "B" of
\* one HSDatalog_v2 object, their files, their comp_status dictionaries and
\* the calls made for both, in the order they were made.
ComponentNames == {"A", "B"}

PairDescs == {d \in PlainDescs : d.dps = 13}

\* a call that stores what it writes in every dictionary of the object
write_cursor_shared(store, c, cs) == [k \in DOMAIN store |-> cs]

\* lines 846, 998-1000, 1070-1072: the call writes in the comp_status
\* dictionary it was given, the one of component c
write_cursor(store, c, cs) == [store EXCEPT ![c] = cs]

\* the caller writes is_first_chunk when it is one that does
prepare_cursor(d, cs, first) ==
  IF d.writes_first_chunk
  THEN [cs EXCEPT !.is_first_chunk = IF first THEN "true" ELSE "false"]
  ELSE cs

\* the calls made so far for component c
CallsOf(c) == SelectSeq(calls, LAMBDA x : x.comp = c)

\* the end of the window of the last call for component c
previous_end_of(c) ==
  LET w == CallsOf(c)[Len(CallsOf(c))]
  IN IF w.end_time = -1 \/ w.end_time > acquisition_duration(desc[c])
     THEN acquisition_duration(desc[c]) ELSE w.end_time

do_call_for(c, start_time, end_time) ==
  LET cs0 == prepare_cursor(desc[c], comp_status[c], CallsOf(c) = <<>>)
  IN \E r \in {get_data_and_timestamps_batch(desc[c], cs0, start_time, end_time)} :
     /\ comp_status' = write_cursor([comp_status EXCEPT ![c] = cs0], c, r.cs)
     /\ calls' = Append(calls, [comp |-> c, start_time |-> start_time,
                                end_time |-> end_time,
                                res |-> [r EXCEPT !.cs = None]])
     /\ UNCHANGED desc

InitPair ==
  /\ desc \in [ComponentNames -> PairDescs]
  /\ comp_status = [c \in ComponentNames |-> fresh_cursor(desc[c])]
  /\ calls = <<>>

FirstCallFor(c) ==
  /\ CallsOf(c) = <<>>
  /\ \E end_time \in {desc[c].tstep, 2 * desc[c].tstep} :
       do_call_for(c, 0, end_time)

NextCallFor(c) ==
  /\ Len(CallsOf(c)) \in 1..(MaxCalls - 1)
  /\ \E end_time \in {-1, previous_end_of(c) + desc[c].tstep} :
       do_call_for(c, previous_end_of(c), end_time)

CallForA == FirstCallFor("A") \/ NextCallFor("A")

CallForB == FirstCallFor("B") \/ NextCallFor("B")

NextPair == CallForA \/ CallForB

SpecPair == InitPair /\ [][NextPair]_vars

\* ------------------------------------------- the decoder on stamped frames
\* __process_datalog applied to frames whose embedded timestamps are any
\* doubles.  Here desc describes the component and the frames of its file:
\*   sp        samples_per_ts, >= 1
\*   mlc_ispu  the sensor's name contains "_mlc" or "_ispu"
\*   recovery  enable_timestamp_recovery(True) was called
\*   stamps    the embedded timestamp of each frame
\* comp_status is [ioffset, is_first_chunk] and a call decodes the frames
\* from..to of the file.
MaxFrames == 3

\* a double that is not a number
NaN == 0 - 999999
\* samples_per_ts / measodr of the sensors decoded here, and of a sensor with
\* a ten times lower measodr
NominalFramePeriod == 4
SlowFramePeriod == 40

\* a consistency check selected by the recovery flag alone
check_timestamps_by_flag(d) == d.recovery

\* lines 611-636: check_timestamps of a Sensor, an Algorithm and an Actuator
check_timestamps(d) == d.c_type = "Sensor" /\ d.recovery /\ ~d.mlc_ispu
\* lines 617-640: frame_period of a Sensor, of an Algorithm that is not an FFT
\* and of an Actuator with samples_per_ts
sensor_frame_period(d) ==
  IF d.c_type = "Sensor" THEN (IF d.mlc_ispu THEN 0 ELSE d.period)
  ELSE IF d.c_type = "Algorithm" THEN 0
  ELSE d.period

\* float addition
FloatAdd(a, b) == IF a = NaN \/ b = NaN THEN NaN ELSE a + b

\* a consistency test that accepts every timestamp
timestamp_accepted(fp, prev, cur) == FALSE

\* lines 672-673: the consistency test of a frame's timestamp cur against the
\* timestamp prev of the frame before it (comparisons with NaN are false)
timestamp_corrupted(fp, prev, cur) ==
  \/ cur = NaN
  \/ prev = NaN
  \/ 10 * Abs(cur - prev) < fp
  \/ Abs(cur - prev) > 10 * fp

\* the sample values of frame i of the file, as the device wrote them
FrameValues(d, i) == [j \in 1..d.sp |-> (i - 1) * d.sp + j]

\* lines 653-677: the frames from..to split into values and timestamp, each
\* frame after the first tested against the timestamp kept for the frame
\* before it
RECURSIVE split_frames(_, _, _, _)
split_frames(d, i, to, done) ==
  IF i > to THEN done
  ELSE LET ts == d.stamps[i]
           prev == done[Len(done)].ts
           fp == sensor_frame_period(d)
           repair == /\ check_timestamps(d)
                     /\ done # <<>>
                     /\ timestamp_corrupted(fp, prev, ts)
           frame == IF repair
                    THEN [vals |-> [j \in 1..d.sp |-> 0], ts |-> FloatAdd(prev, fp)]
                    ELSE [vals |-> FrameValues(d, i), ts |-> ts]
       IN split_frames(d, i + 1, to, Append(done, frame))

\* np.linspace(a, b, sp, endpoint=False)[j], times sp
linspace(sp, a, b, j) ==
  IF a = NaN \/ b = NaN THEN NaN ELSE sp * a + j * (b - a)

\* lines 752-757: the times of the samples of a frame stamped cur that follows
\* the timestamp prev
frame_sample_times(sp, fp, prev, cur) ==
  IF prev = NaN \/ cur = NaN THEN [j \in 1..sp |-> NaN]
  ELSE [j \in 1..sp |-> linspace(sp, interval_start(fp, prev, cur), cur, j - 1)]

RECURSIVE Flatten(_)
Flatten(ss) == IF ss = <<>> THEN <<>> ELSE Head(ss) \o Flatten(Tail(ss))

\* sample times that start with the origin tss[1]
samples_times_from_origin(sp, fp, tss) ==
  Flatten([i \in 1..(Len(tss) - 1) |-> [j \in 1..sp |-> sp * tss[i]]])

\* lines 733-761: the times of the samples, as numerators over sp, from the
\* origin tss[1] and the timestamps of the frames after it
samples_times(sp, fp, tss) ==
  IF sp > 1
  THEN Flatten([i \in 1..(Len(tss) - 1) |->
                  frame_sample_times(sp, fp, tss[i], tss[i + 1])])
  ELSE Tail(tss)

\* lines 610-769 for a Sensor with embedded timestamps, raw_flag = True:
\* the sample values, their times as numerators over sp, and ss_stat as the
\* call leaves it
extract_data_and_timestamps(d, ss, from, to, start_time, prev_timestamp) ==
  CHOOSE ret \in {
    LET sp == d.sp
        fp == sensor_frame_period(d)
        num_frames == Len(frames)
        head == IF start_time # 0 /\ ss.is_first_chunk
                THEN (IF prev_timestamp # None THEN prev_timestamp ELSE ss.ioffset)
                ELSE ss.ioffset
        tss == <<head>> \o [i \in 1..num_frames |-> frames[i].ts]
        data == Flatten([i \in 1..num_frames |-> frames[i].vals])
        times == samples_times(sp, fp, tss)
        ok == {k \in 1..Len(times) : times[k] # (0 - 1) * sp}
        Keep(s) == LET RECURSIVE kp(_)
                       kp(k) == IF k > Len(s) THEN <<>>
                                ELSE (IF k \in ok THEN <<s[k]>> ELSE <<>>) \o kp(k + 1)
                   IN kp(1)
    IN IF num_frames = 0
       THEN [data |-> <<>>, times |-> <<>>, ss |-> ss]
       ELSE [data |-> Keep(data), times |-> Keep(times),
             ss |-> [ss EXCEPT !.ioffset = ioffset_update(tss)]]
    : frames \in {split_frames(d, from, to, <<>>)}} : TRUE

Stamps == {3, 4, 8, 50, NaN}
StampedDescs ==
  {d \in [sp : {1, 2},
          c_type : {"Sensor"},
          mlc_ispu : BOOLEAN,
          recovery : BOOLEAN,
          period : {NominalFramePeriod},
          stamps : UNION {[1..n -> Stamps] : n \in 1..MaxFrames}] :
     d.mlc_ispu => d.recovery}

InitDecode ==
  /\ desc \in StampedDescs
  /\ comp_status = [ioffset |-> 0, is_first_chunk |-> FALSE]
  /\ calls = <<>>

\* the frames the calls made so far have decoded
FramesDecoded == IF calls = <<>> THEN 0 ELSE calls[Len(calls)].to

do_decode(to, first, start_time, prev_timestamp) ==
  LET ss == [comp_status EXCEPT !.is_first_chunk = first]
      from == FramesDecoded + 1
      r == extract_data_and_timestamps(desc, ss, from, to, start_time, prev_timestamp)
  IN /\ comp_status' = r.ss
     /\ calls' = Append(calls, [from |-> from, to |-> to, before |-> ss,
                                start_time |-> start_time,
                                prev_timestamp |-> prev_timestamp,
                                res |-> [data |-> r.data, times |-> r.times]])
     /\ UNCHANGED desc

\* a chunk decoded as the first of an extraction that starts at a time > 0,
\* with or without the timestamp found before the window
DecodeFirstChunk ==
  /\ Len(calls) < MaxCalls
  /\ \E to \in (FramesDecoded + 1)..Len(desc.stamps) :
       \E prev_timestamp \in {None, 3} : do_decode(to, TRUE, 4, prev_timestamp)

\* a chunk decoded as the first of the whole file, or as a later chunk
DecodeChunk ==
  /\ Len(calls) < MaxCalls
  /\ \E to \in (FramesDecoded + 1)..Len(desc.stamps) :
       do_decode(to, calls = <<>>, 0, None)

NextDecode == DecodeFirstChunk \/ DecodeChunk

SpecDecode == InitDecode /\ [][NextDecode]_vars

\* ------------------------------------ frames with increasing timestamps
\* Sensors with a frame period of 40 whose frames carry strictly increasing
\* timestamps, none before the initial ioffset.
IncreasingStamps ==
  {s \in UNION {[1..n -> Stamps \ {NaN}] : n \in 1..MaxFrames} :
     \A i \in 1..(Len(s) - 1) : s[i] < s[i + 1]}
SlowFrameDescs ==
  [sp : {1, 2}, c_type : {"Sensor"}, mlc_ispu : {FALSE}, recovery : BOOLEAN,
   period : {SlowFramePeriod}, stamps : IncreasingStamps]

InitSlowFrames ==
  /\ desc \in SlowFrameDescs
  /\ comp_status = [ioffset |-> 0, is_first_chunk |-> FALSE]
  /\ calls = <<>>

\* the first chunk of an extraction, decoded as the first of the whole file or
\* as the first of a window that starts at a time > 0
DecodeFirst ==
  /\ calls = <<>>
  /\ \E to \in 1..Len(desc.stamps) :
       \/ do_decode(to, TRUE, 0, None)
       \/ \E prev_timestamp \in {None, 3} : do_decode(to, TRUE, 4, prev_timestamp)

\* a later chunk
DecodeLater ==
  /\ calls # <<>>
  /\ Len(calls) < MaxCalls
  /\ \E to \in (FramesDecoded + 1)..Len(desc.stamps) : do_decode(to, FALSE, 0, None)

NextSlowFrames == DecodeFirst \/ DecodeLater

SpecSlowFrames == InitSlowFrames /\ [][NextSlowFrames]_vars

\* ------------------------------------------- frames by component kind
\* Components with embedded timestamps and timestamp recovery enabled: a
\* Sensor, an MLC/ISPU channel of a Sensor, an Algorithm that is not an FFT and
\* an Actuator with samples_per_ts; and a Sensor without timestamp recovery.
DecodedKinds ==
  {[c_type |-> "Sensor", mlc_ispu |-> FALSE, recovery |-> TRUE],
   [c_type |-> "Sensor", mlc_ispu |-> FALSE, recovery |-> FALSE],
   [c_type |-> "Sensor", mlc_ispu |-> TRUE, recovery |-> TRUE],
   [c_type |-> "Algorithm", mlc_ispu |-> FALSE, recovery |-> TRUE],
   [c_type |-> "Actuator", mlc_ispu |-> FALSE, recovery |-> TRUE]}
KindStamps == {3, 4, 50, NaN}
KindDescs ==
  {[sp |-> sp, c_type |-> k.c_type, mlc_ispu |-> k.mlc_ispu,
    recovery |-> k.recovery, period |-> NominalFramePeriod, stamps |-> s] :
     sp \in {1, 2}, k \in DecodedKinds,
     s \in UNION {[1..n -> KindStamps] : n \in 1..MaxFrames}}

InitKinds ==
  /\ desc \in KindDescs
  /\ comp_status = [ioffset |-> 0, is_first_chunk |-> FALSE]
  /\ calls = <<>>

SpecKinds == InitKinds /\ [][NextDecode]_vars

\* --------------------------------------- acquisitions that end early
\* Files whose acquisition info records an end one frame period before the
\* last frame of the file, at it, or one frame period after it.
EarlyEndDescs ==
  {[d EXCEPT !.dur_slack = s] : d \in PlainDescs \cup {e \in ValidDescs : e.spts = 2
                                                          /\ e.npk = MaxPackets
                                                          /\ e.garbage = 0
                                                          /\ e.ts_off = 0
                                                          /\ e.gap_at = -1},
                                  s \in {-1, 0, 1}}

InitEarlyEnd ==
  /\ desc \in EarlyEndDescs
  /\ comp_status = fresh_cursor(desc)
  /\ calls = <<>>

SpecEarlyEnd == InitEarlyEnd /\ [][Next]_vars

\* ------------------------------------------------- frames of ten samples
\* Files of 64-byte payloads for a sensor of dim 3 and float32 data (12 bytes
\* a sample) with samples_per_ts = 10: a frame is 120 data bytes and an
\* 8-byte timestamp, two payloads long.
LongFrameDescs ==
  {[dps |-> 64, spts |-> 10, sbytes |-> 12, odr |-> 1, npk |-> n, tail |-> 0,
    skip_at |-> -1, ts_off |-> f, gap_at |-> -1, dur_slack |-> s, garbage |-> g,
    writes_first_chunk |-> w, seeded |-> FALSE, tstep |-> 10] :
     n \in {3, 6}, f \in {0, 10}, s \in {0, 1}, g \in GarbageValues, w \in BOOLEAN}

InitLongFrames ==
  /\ desc \in LongFrameDescs
  /\ comp_status = fresh_cursor(desc)
  /\ calls = <<>>

SpecLongFrames == InitLongFrames /\ [][Next]_vars

\* ------------------------------------------ frame geometry by component
\* The timestamp size and the samples_per_ts of each component kind the
\* entry point decodes.  Here desc is the component's descriptor:
\*   c_type, has_odr, name   kind, whether it has an "odr" key, and its name
\*   spts      the "samples_per_ts" entry: absent, an int, or a dictionary
\*             with or without "val"
\*   usb_dps   the "usb_dps" entry (None: absent; the acquisition is then on
\*             another interface)
\*   type_len, nof_telemetries   bytes of one value, enabled telemetries
\* a timestamp size that follows samples_per_ts for every component kind
timestamp_bytes_by_samples_per_ts(comp, s_spts) ==
  IF s_spts # 0 THEN ts_byte_size ELSE 0

\* lines 893-901: s_samples_per_ts
s_samples_per_ts(comp) ==
  IF comp.spts.form = "int" THEN comp.spts.val
  ELSE IF comp.spts.form = "dict" THEN comp.spts.val
  ELSE IF comp.c_type = "Actuator" THEN 1 ELSE 0

\* lines 903-911, 1199-1203, 1219-1220: timestamp_byte_size; None when the
\* statement that uses it finds it unassigned
timestamp_bytes(comp, s_spts) ==
  IF comp.c_type = "Sensor" \/ (comp.c_type = "Actuator" /\ comp.has_odr)
  THEN (IF s_spts # 0 THEN ts_byte_size ELSE 0)
  ELSE IF comp.c_type = "Actuator"
  THEN (IF comp.usb_dps # None THEN ts_byte_size ELSE None)
  ELSE 0

\* lines 788-810: samples_per_ts as __process_datalog resolves it, for frames
\* of dataframe_size data bytes
resolved_samples_per_ts(comp, dataframe_size) ==
  LET stored == IF comp.spts.form \in {"int", "dict"} THEN comp.spts.val ELSE 0
  IN IF comp.c_type = "Sensor"
     THEN (IF stored # 0 THEN stored ELSE (dataframe_size \div comp.type_len) \div comp.dim)
     ELSE IF comp.c_type = "Algorithm" THEN 1
     ELSE IF comp.spts.form = "absent"
     THEN (dataframe_size \div comp.type_len) \div comp.nof_telemetries
     ELSE stored

\* lines 893-911, 1199-1205, 1219-1230: the geometry a call decodes with
frame_geometry(comp) ==
  LET s_spts == s_samples_per_ts(comp)
      ts == timestamp_bytes(comp, s_spts)
      dataframe_bytes ==
        IF comp.c_type = "Sensor" \/ (comp.c_type = "Actuator" /\ comp.has_odr)
        THEN (IF s_spts # 0 THEN s_spts * comp.dim * comp.type_len
              ELSE comp.dim * comp.type_len)
        ELSE IF comp.c_type = "Actuator" THEN comp.usb_dps - ts_byte_size
        ELSE comp.dim * comp.type_len
  IN IF ts = None
     THEN [st |-> "UnboundLocalError", timestamp_byte_size |-> None,
           s_samples_per_ts |-> s_spts, samples_per_ts |-> None]
     ELSE [st |-> "ok", timestamp_byte_size |-> ts, s_samples_per_ts |-> s_spts,
           samples_per_ts |-> resolved_samples_per_ts(comp, dataframe_bytes)]

SamplesPerTsEntries ==
  {[form |-> "absent", val |-> 0], [form |-> "dict_no_val", val |-> 0]}
    \cup {[form |-> f, val |-> v] : f \in {"int", "dict"}, v \in 0..2}

\* a sensor, a telemetry actuator with and without odr, and an FFT algorithm
DecodedComponents ==
  {[c_type |-> k.c_type, has_odr |-> k.has_odr, name |-> k.name, spts |-> s,
    usb_dps |-> u, dim |-> 2, type_len |-> 4, nof_telemetries |-> 2] :
     k \in {[c_type |-> "Sensor", has_odr |-> TRUE, name |-> "acc"],
            [c_type |-> "Actuator", has_odr |-> TRUE, name |-> "fast_mc_telemetries"],
            [c_type |-> "Actuator", has_odr |-> FALSE, name |-> "fast_mc_telemetries"],
            [c_type |-> "Actuator", has_odr |-> FALSE, name |-> "slow_mc_telemetries"],
            [c_type |-> "Algorithm", has_odr |-> FALSE, name |-> "fft_dpu"]},
     s \in SamplesPerTsEntries, u \in {None, 16, 24}}

InitGeometry ==
  /\ desc \in DecodedComponents
  /\ comp_status = [is_first_chunk |-> TRUE]
  /\ calls = <<>>

\* one call computes the geometry of its component
ResolveGeometry ==
  /\ calls = <<>>
  /\ calls' = <<[res |-> frame_geometry(desc)]>>
  /\ UNCHANGED <<desc, comp_status>>

NextGeometry == ResolveGeometry

SpecGeometry == InitGeometry /\ [][NextGeometry]_vars

\* ----------------------------------------------------------- unit scaling
\* Lines 699-727 of __process_datalog: the decoded values of a chunk turned
\* into the returned s_data.  Here desc is the component and the call:
\*   c_type, name   the component's kind and name
\*   raw_flag       the caller's raw_flag
\*   data           the decoded values, one row per sample, one column per
\*                  axis or telemetry channel
\* and comp_status is ss_stat: data_type, sensitivity and the current and
\* voltage scale factors of the fast telemetries.
Float32Exact == 16777216

\* v.astype(np.float32) for an integer v of less than 2 * Float32Exact:
\* rounded to the nearest even integer above Float32Exact
astype_float32(v) ==
  IF Abs(v) <= Float32Exact \/ v % 2 = 0 THEN v
  ELSE IF (v \div 2) % 2 = 0 THEN 2 * (v \div 2) ELSE 2 * (v \div 2) + 2

\* the telemetry channels of the two motor-control components, and the
\* channels whose name contains "i" and "v"
TelemetryChannels == <<"i_q", "v_q">>
NameContains(t, letter) ==
  \/ letter = "i" /\ t = "i_q"
  \/ letter = "v" /\ t = "v_q"

\* line 781: data_type_string
data_type_string(name, ss) == IF name = "acc_ispu" THEN "int8" ELSE ss.data_type

\* lines 699-727: s_data and its datatype
unit_scaler(c_type, name, ss, raw_flag, data) ==
  LET each(f(_, _)) == [r \in 1..Len(data) |-> [c \in 1..Len(data[r]) |-> f(data[r][c], c)]]
      as_float(v, c) == astype_float32(v)
      by_sensitivity(v, c) == astype_float32(astype_float32(v) * ss.sensitivity)
      by_channel(v, c) ==
        IF NameContains(TelemetryChannels[c], "i")
        THEN astype_float32(astype_float32(v) * ss.current)
        ELSE IF NameContains(TelemetryChannels[c], "v")
        THEN astype_float32(astype_float32(v) * ss.voltage)
        ELSE astype_float32(v)
      same(v, c) == v
      by_sensitivity_in_place(v, c) == v * ss.sensitivity
  IN CASE c_type = "Sensor" /\ raw_flag ->
            [st |-> "ok", dtype |-> data_type_string(name, ss), values |-> each(same)]
       [] c_type = "Sensor" /\ ~raw_flag /\ name = "acc_ispu" ->
            [st |-> "ok", dtype |-> "int8", values |-> each(by_sensitivity_in_place)]
       [] c_type = "Sensor" /\ ~raw_flag /\ name # "acc_ispu" ->
            [st |-> "ok", dtype |-> "float32", values |-> each(by_sensitivity)]
       [] c_type = "Algorithm" /\ raw_flag ->
            [st |-> "ok", dtype |-> "float32", values |-> each(as_float)]
       [] c_type = "Algorithm" /\ ~raw_flag ->
            [st |-> "ok", dtype |-> "float32", values |-> each(by_sensitivity)]
       [] c_type = "Actuator" /\ name = "fast_mc_telemetries" /\ ~raw_flag ->
            [st |-> "ok", dtype |-> "float32", values |-> each(by_channel)]
       [] c_type = "Actuator" /\ name = "fast_mc_telemetries" /\ raw_flag ->
            [st |-> "ok", dtype |-> "float32", values |-> each(as_float)]
       [] c_type = "Actuator" /\ name = "slow_mc_telemetries" ->
            [st |-> "ok", dtype |-> "float32", values |-> each(as_float)]
       [] OTHER ->
            [st |-> "UnboundLocalError", dtype |-> "none", values |-> <<>>]

\* the components: sensors, the FFT algorithm, the motor-control telemetries
\* and an actuator with odr that is not one of them
ScaledComponents ==
  {[c_type |-> "Sensor", name |-> "acc"],
   [c_type |-> "Sensor", name |-> "acc_ispu"],
   [c_type |-> "Algorithm", name |-> "fft_dpu"],
   [c_type |-> "Actuator", name |-> "fast_mc_telemetries"],
   [c_type |-> "Actuator", name |-> "slow_mc_telemetries"],
   [c_type |-> "Actuator", name |-> "motor"]}

\* the values a datatype holds that the model decodes
DecodedValues(data_type) ==
  IF data_type = "int32" THEN {3, Float32Exact + 1} ELSE {3, 50}

ScaleInputs ==
  UNION {
    {[c_type |-> k.c_type, name |-> k.name, raw_flag |-> raw_flag, data |-> <<row>>,
      ss |-> [data_type |-> t, sensitivity |-> s, current |-> 2, voltage |-> 5]] :
       row \in [1..2 -> DecodedValues(data_type_string(k.name, [data_type |-> t]))]} :
    k \in ScaledComponents, raw_flag \in BOOLEAN,
    t \in {"int16", "int32", "float32"}, s \in {1, 2}}

InitScale ==
  /\ \E x \in ScaleInputs :
       /\ desc = [c_type |-> x.c_type, name |-> x.name, raw_flag |-> x.raw_flag,
                  data |-> x.data]
       /\ comp_status = x.ss
  /\ calls = <<>>

\* one chunk decoded and scaled
Scale ==
  /\ calls = <<>>
  /\ calls' = <<[res |-> unit_scaler(desc.c_type, desc.name, comp_status,
                                     desc.raw_flag, desc.data)]>>
  /\ UNCHANGED <<desc, comp_status>>

NextScale == Scale

SpecScale == InitScale /\ [][NextScale]_vars

\* ------------------------------------- STWINHSD_CommandManager.update_device
MaxSensors == 2
MaxSubSensors == 2
MaxTags == 1

\* Python's None where a response is expected
NoResponse == "None"

\* what hs_datalog_send_message hands back: res[0], the outcome of the call, and
\* res[2], the response buffer
DllResponses ==
  {[ok |-> TRUE, data |-> "response"], [ok |-> TRUE, data |-> NoResponse],
   [ok |-> FALSE, data |-> NoResponse], [ok |-> FALSE, data |-> "response"]}

\* a __send_message that hands the response buffer back whatever the outcome
send_message_unchecked(res) == res.data

\* lines 144-148: __send_message
send_message(res) == IF res.ok THEN res.data ELSE NoResponse

\* lines 474, 483, 503, 515: the device model of the JSON file: per sensor the
\* number of its sub-sensor statuses, the hardware tags with their enabled flag,
\* the software tags
DeviceModels ==
  [sensor : UNION {[1..n -> 0..MaxSubSensors] : n \in 0..MaxSensors},
   hw_tags : UNION {[1..n -> BOOLEAN] : n \in 0..MaxTags},
   sw_tags : 0..MaxTags]

\* lines 515-523: entering the loop over the software tags, or the return
at_sw_tags(d) ==
  IF d.sw_tags > 0 THEN [at |-> "sw_label", s |-> 0, i |-> 0, t |-> 1, result |-> "none"]
  ELSE [at |-> "end", s |-> 0, i |-> 0, t |-> 0, result |-> "True"]

\* lines 503-504: entering the loop over the hardware tags
at_hw_tags(d) ==
  IF Len(d.hw_tags) > 0
  THEN [at |-> "hw_enabled", s |-> 0, i |-> 0, t |-> 1, result |-> "none"]
  ELSE at_sw_tags(d)

\* lines 484-485: the first sub-sensor of sensor s or of a later sensor
RECURSIVE at_sensor(_, _)
at_sensor(d, s) ==
  IF s > Len(d.sensor) THEN at_hw_tags(d)
  ELSE IF d.sensor[s] > 0
       THEN [at |-> "sensor", s |-> s, i |-> 1, t |-> 0, result |-> "none"]
       ELSE at_sensor(d, s + 1)

\* the raise statements of update_device
raised(name) == [at |-> "end", s |-> 0, i |-> 0, t |-> 0, result |-> name]

InitUpdate ==
  /\ desc \in DeviceModels
  /\ comp_status = [at |-> "alias", s |-> 0, i |-> 0, t |-> 0, result |-> "none"]
  /\ calls = <<>>

\* lines 476-481: the device alias
SendDeviceAlias ==
  /\ comp_status.at = "alias"
  /\ \E res \in DllResponses :
       /\ calls' = Append(calls, [cmd |-> "set_device_alias_cmd", id |-> 0, sub |-> 0, res |-> res])
       /\ comp_status' = IF send_message(res) = NoResponse THEN raised("set_device_alias_cmd")
                         ELSE at_sensor(desc, 1)
  /\ UNCHANGED desc

\* lines 485-501: the parameters of one sub-sensor
SendSetSensor ==
  /\ comp_status.at = "sensor"
  /\ \E res \in DllResponses :
       /\ calls' = Append(calls, [cmd |-> "set_sensor_cmd", id |-> comp_status.s - 1,
                                  sub |-> comp_status.i - 1, res |-> res])
       /\ comp_status' =
            IF send_message(res) = NoResponse THEN raised("set_sensor_cmd")
            ELSE IF comp_status.i < desc.sensor[comp_status.s]
                 THEN [comp_status EXCEPT !.i = @ + 1]
                 ELSE at_sensor(desc, comp_status.s + 1)
  /\ UNCHANGED desc

\* lines 505-509: the status of one hardware tag
SendHwTagEnabled ==
  /\ comp_status.at = "hw_enabled"
  /\ \E res \in DllResponses :
       /\ calls' = Append(calls,
            [cmd |-> IF desc.hw_tags[comp_status.t] THEN "set_hw_tag_enabled_cmd"
                     ELSE "set_hw_tag_disabled_cmd",
             id |-> comp_status.t - 1, sub |-> 0, res |-> res])
       /\ comp_status' = IF send_message(res) = NoResponse THEN raised("set_hw_tag_enabled_cmd")
                         ELSE [comp_status EXCEPT !.at = "hw_label"]
  /\ UNCHANGED desc

\* lines 510-514: the label of one hardware tag
SendHwTagLabel ==
  /\ comp_status.at = "hw_label"
  /\ \E res \in DllResponses :
       /\ calls' = Append(calls, [cmd |-> "set_hw_tag_label_cmd", id |-> comp_status.t - 1,
                                  sub |-> 0, res |-> res])
       /\ comp_status' =
            IF send_message(res) = NoResponse THEN raised("set_hw_tag_label_cmd")
            ELSE IF comp_status.t < Len(desc.hw_tags)
                 THEN [comp_status EXCEPT !.at = "hw_enabled", !.t = @ + 1]
                 ELSE at_sw_tags(desc)
  /\ UNCHANGED desc

\* lines 516-523: the label of one software tag, and the return after the last
SendSwTagLabel ==
  /\ comp_status.at = "sw_label"
  /\ \E res \in DllResponses :
       /\ calls' = Append(calls, [cmd |-> "set_sw_tag_label_cmd", id |-> comp_status.t - 1,
                                  sub |-> 0, res |-> res])
       /\ comp_status' =
            IF send_message(res) = NoResponse THEN raised("set_sw_tag_label_cmd")
            ELSE IF comp_status.t < desc.sw_tags
                 THEN [comp_status EXCEPT !.t = @ + 1]
                 ELSE [at |-> "end", s |-> 0, i |-> 0, t |-> 0, result |-> "True"]
  /\ UNCHANGED desc

NextUpdate ==
  SendDeviceAlias \/ SendSetSensor \/ SendHwTagEnabled \/ SendHwTagLabel \/ SendSwTagLabel

SpecUpdate == InitUpdate /\ [][NextUpdate]_vars

\* --------------------------------- STWINHSD_CommandManager set operations
MaxSetCalls == 2

\* lines 373-468: the set operations that call the DLL directly
SetOperations ==
  {"set_sensor_active", "set_sub_sensor_active", "set_sub_sensor_odr",
   "set_sub_sensor_fs", "set_samples_per_timestamp", "set_hw_tag_enabled",
   "set_hw_tag_disabled", "set_hw_tag_label", "set_sw_tag_on", "set_sw_tag_off",
   "set_sw_tag_label"}

\* how a call ends: a returned value, or a raised SETCommandError(name)
Return(value) == [kind |-> "return", value |-> value]
Raise(name) == [kind |-> "raise", value |-> "SETCommandError(" \o name \o ")"]

\* lines 373-411, 422-468: a set operation whose DLL call answered res: each
\* returns True on a true answer and raises SETCommandError(op) otherwise, but
\* set_sw_tag_label, whose line 468 returns the exception object
set_operation(op, res) ==
  IF res THEN Return("True")
  ELSE IF op = "set_sw_tag_label" THEN Return("SETCommandError(" \o op \o ")")
  ELSE Raise(op)

\* lines 413-420: set_acquisition_info, sent as a message
set_acquisition_info(res) ==
  IF send_message(res) # NoResponse THEN Return("True") ELSE Raise("set_acquisition_info")

InitSetters ==
  /\ desc = [d_id |-> 0]
  /\ comp_status = [connected |-> TRUE]
  /\ calls = <<>>

\* one call of a set operation that calls the DLL directly
CallSetOperation ==
  /\ Len(calls) < MaxSetCalls
  /\ \E op \in SetOperations, res \in BOOLEAN :
       calls' = Append(calls, [op |-> op, res |-> res, out |-> set_operation(op, res)])
  /\ UNCHANGED <<desc, comp_status>>

\* one call of set_acquisition_info
CallSetAcquisitionInfo ==
  /\ Len(calls) < MaxSetCalls
  /\ \E res \in DllResponses :
       calls' = Append(calls, [op |-> "set_acquisition_info", res |-> res,
                               out |-> set_acquisition_info(res)])
  /\ UNCHANGED <<desc, comp_status>>

NextSetters == CallSetOperation \/ CallSetAcquisitionInfo

SpecSetters == InitSetters /\ [][NextSetters]_vars

\* ------------------------------------------------- get_data_and_timestamps
\* usb_dps of the components read here: one byte of data and a timestamp
CheckedDps == 9

\* lines 1242-1270, 1290-1311: the component read: its type, whether an
\* Algorithm is an FFT, whether an Actuator is a motor-control telemetry, its
\* samples_per_ts and the number of complete packets of its raw file; dim 1,
\* one-byte samples, odr 1, usb interface
CheckedDescs ==
  [c_type : {"Sensor"}, fft : {FALSE}, telemetry : {FALSE}, spts : {0, 1}, npk : 0..MaxPackets]
  \cup [c_type : {"Algorithm"}, fft : BOOLEAN, telemetry : {FALSE}, spts : {0}, npk : 0..MaxPackets]
  \cup [c_type : {"Actuator"}, fft : {FALSE}, telemetry : BOOLEAN, spts : {1}, npk : 0..MaxPackets]

\* lines 1275-1288: the size of the _checked.dat copy: the payloads of the
\* complete packets
checked_file_size(d) == d.npk * CheckedDps

\* f.seek(start); f.read(n) on a file of the given size: the number of bytes
\* read; a negative n reads up to the end
read_len(size, start, n) ==
  IF start >= size THEN 0
  ELSE IF n < 0 \/ n > size - start THEN size - start
  ELSE n

\* lines 1325-1360: read_start_bytes and read_end_bytes of the Sensor branch
sensor_read_range(d, start_time, end_time) ==
  LET size_of_copy == checked_file_size(d)
      samples_in_copy == size_of_copy
      sample_end0 == IF end_time # -1 THEN end_time ELSE -1
      sample_end1 == IF sample_end0 > samples_in_copy THEN samples_in_copy ELSE sample_end0
      first_sample == start_time
      spts_checked == IF d.spts > samples_in_copy THEN 0 ELSE d.spts
  IN IF spts_checked = 0
     THEN LET end_sample == IF sample_end1 = -1 THEN samples_in_copy ELSE sample_end1
          IN [read_start_bytes |-> first_sample, read_end_bytes |-> end_sample]
     ELSE LET frame_bytes == spts_checked
              ts_bytes == 8
              end_sample == IF sample_end1 = -1
                            THEN (size_of_copy \div (ts_bytes + frame_bytes))
                                 * spts_checked
                            ELSE sample_end1
              blocks_before_start == first_sample \div spts_checked
              blocks_before_end == end_sample \div spts_checked
          IN [read_start_bytes |->
                IF blocks_before_start > 0
                THEN blocks_before_start * frame_bytes
                     + (blocks_before_start - 1) * ts_bytes
                ELSE 0,
              read_end_bytes |->
                (blocks_before_end + 1) * frame_bytes
                + (blocks_before_end + 1) * ts_bytes]

\* lines 1334-1397: how the Sensor branch ends and whether the _checked.dat
\* copy is still there: the read of lines 1362-1367, then the decoding, in which
\* err is raised; the handlers catch MemoryError and OverflowError
sensor_exit(d, start_time, end_time, err) ==
  LET r == sensor_read_range(d, start_time, end_time)
      n == read_len(checked_file_size(d), r.read_start_bytes,
                    r.read_end_bytes - r.read_start_bytes)
  IN IF n = 0 THEN [exit |-> "NoDataAtIndexError", checked |-> TRUE]
     ELSE IF err # "none" THEN [exit |-> err, checked |-> FALSE]
     ELSE [exit |-> "data", checked |-> FALSE]

\* lines 1399-1423: the Algorithm branch
algorithm_exit(d) ==
  IF d.fft
  THEN IF checked_file_size(d) = 0
       THEN [exit |-> "NoDataAtIndexError", checked |-> TRUE]
       ELSE [exit |-> "data", checked |-> FALSE]
  ELSE [exit |-> "None, None", checked |-> FALSE]

\* lines 1425-1468: the Actuator branch; data_packet_size is a number here, and
\* a component that is not a telemetry falls out of the function
actuator_exit(d) ==
  IF d.telemetry
  THEN IF checked_file_size(d) = 0
       THEN [exit |-> "NoDataAtIndexError", checked |-> TRUE]
       ELSE [exit |-> "data", checked |-> FALSE]
  ELSE [exit |-> "None", checked |-> TRUE]

InitChecked ==
  /\ desc \in CheckedDescs
  /\ comp_status = [checked |-> FALSE]
  /\ calls = <<>>

\* one call: the copy is created (lines 1272-1288), then the branch of the
\* component type runs
checked_call(start_time, end_time, out) ==
  /\ Len(calls) < MaxCalls
  /\ calls' = Append(calls, [start_time |-> start_time, end_time |-> end_time,
                             created |-> TRUE, exit |-> out.exit, checked |-> out.checked])
  /\ comp_status' = [checked |-> out.checked]
  /\ UNCHANGED desc

GetSensorData ==
  /\ desc.c_type = "Sensor"
  /\ \E start_time \in 0..MaxTime, end_time \in {-1} \cup 0..MaxTime,
        err \in {"none", "MemoryError", "OverflowError"} :
       checked_call(start_time, end_time, sensor_exit(desc, start_time, end_time, err))

GetAlgorithmData ==
  /\ desc.c_type = "Algorithm"
  /\ \E start_time \in 0..MaxTime, end_time \in {-1} \cup 0..MaxTime :
       checked_call(start_time, end_time, algorithm_exit(desc))

GetActuatorData ==
  /\ desc.c_type = "Actuator"
  /\ \E start_time \in 0..MaxTime, end_time \in {-1} \cup 0..MaxTime :
       checked_call(start_time, end_time, actuator_exit(desc))

NextChecked == GetSensorData \/ GetAlgorithmData \/ GetActuatorData

SpecChecked == InitChecked /\ [][NextChecked]_vars

\* ------------------------------------------------------------------ claims
\* the (timestamp, sample) pairs a call returned
Pairs(r) == [k \in 1..Len(r.data) |-> <<r.times[k], r.data[k]>>]
\* one call for [0, T2) by the same caller on a cursor as the first call got it
single_call(T2) == get_data_and_timestamps_batch(desc, calls[1].before, 0, T2)
\* the history so far is [0, T1) then [T1, T2), 0 < T1 < T2 within the
\* acquisition, on a valid file
SplitInTwo ==
  /\ desc \in ValidDescs
  /\ Len(calls) = 2
  /\ calls[1].start_time = 0
  /\ calls[1].end_time # -1
  /\ calls[2].end_time # -1
  /\ calls[2].end_time <= acquisition_duration(desc)

\* C1: on a valid file, the calls for [0, T1) and then [T1, T2) on one cursor
\* return, concatenated, the (timestamp, sample) pairs of one call for [0, T2)
\* on a fresh cursor.
C1_ResumeEqualsSingleCall ==
  SplitInTwo =>
    /\ calls[1].res.st = "ok"
    /\ calls[2].res.st = "ok"
    /\ Pairs(calls[1].res) \o Pairs(calls[2].res) = Pairs(single_call(calls[2].end_time))

\* the bytes the reader consumed over the calls that returned, in call order
RECURSIVE ConsumedUpTo(_)
ConsumedUpTo(i) ==
  IF i = 0 THEN <<>>
  ELSE ConsumedUpTo(i - 1)
         \o (IF calls[i].res.st = "ok" THEN calls[i].res.consumed ELSE <<>>)
\* s is a run of successive payload bytes of the file
IsPayloadRun(s) ==
  /\ \A k \in 1..Len(s) : s[k] >= 0
  /\ \A k \in 1..(Len(s) - 1) : s[k + 1] = s[k] + 1

\* C2: over successive calls on one cursor the reader consumes the payload
\* bytes of a valid file in order: none twice, none skipped, no counter byte.
C2_ConsumesPayloadInOrder ==
  desc \in ValidDescs => IsPayloadRun(ConsumedUpTo(Len(calls)))

\* call i read a packet, not the first of the file, whose counter is not the
\* stored counter plus the payload size
ReadCounterSkip(i) ==
  \E k \in 1..Len(calls[i].res.mismatched) : calls[i].res.mismatched[k] >= 1

\* C3: a call that reads a packet, not the first of the file, whose counter is
\* not the previously validated counter plus the payload size raises
\* DataCorruptedException, on a fresh and on a resumed cursor.
C3_CounterSkipRaises ==
  \A i \in 1..Len(calls) :
    ReadCounterSkip(i) => calls[i].res.st = "DataCorruptedException"

\* the cursor call i got is fresh: no earlier call consumed a byte of the file
FreshBefore(i) == i = 1 /\ calls[i].before.last_index \in {None, 0}

\* C4: a counter mismatch is tolerated only on a fresh cursor, on the very
\* first packet of the file, with a stored previous counter of exactly 0; a
\* call that meets any other mismatch raises DataCorruptedException.
C4_ToleratedOnlyAtFileStart ==
  \A i \in 1..Len(calls) :
    calls[i].res.mismatched # <<>> =>
      \/ calls[i].res.st = "DataCorruptedException"
      \/ /\ FreshBefore(i)
         /\ calls[i].before.prev_data_byte_counter = 0
         /\ calls[i].res.mismatched = <<0>>

\* C5: on a resumed cursor a call whose first packet has a counter
\* discontinuity raises DataCorruptedException, whatever the stored counter and
\* whether or not the caller wrote is_first_chunk.
C5_ResumedNeverTolerates ==
  \A i \in 1..Len(calls) :
    (calls[i].before.last_index \notin {None, 0} /\ calls[i].res.tolerated # <<>>)
      => calls[i].res.st = "DataCorruptedException"

\* the latest call
LastCall == calls[Len(calls)]
\* the latest call returned normally after stopping on its byte budget or on
\* its end_time
StoppedOnTarget ==
  /\ calls # <<>>
  /\ LastCall.res.st = "ok"
  /\ LastCall.res.stop \in {"budget", "end_time"}

RECURSIVE MinOf(_)
MinOf(q) == IF Len(q) = 1 THEN q[1] ELSE Min(q[1], MinOf(Tail(q)))
\* the one call so far is a first chunk with start_time > 0 and timestamps in
\* the file, a frame of the file has a timestamp <= start_time, and the call
\* returned samples
FirstChunkAfterStart ==
  /\ Len(calls) = 1
  /\ desc.spts > 0
  /\ LastCall.start_time > 0
  /\ FrameTimestamp(desc, 0) <= LastCall.start_time
  /\ LastCall.res.st = "ok"
  /\ LastCall.res.times # <<>>
\* the frame of the first returned sample
FirstReturnedFrame == LastCall.res.data[1][1] \div frame_size(desc)
\* the first returned frame is a frame of the file, one frame period after the
\* frame before it
NoGapBeforeFirstReturned ==
  /\ ~LastCall.res.garbled
  /\ FirstReturnedFrame >= 1
  /\ FrameTimestamp(desc, FirstReturnedFrame)
       - FrameTimestamp(desc, FirstReturnedFrame - 1) = frame_period(desc)

C8_LookBackStopsAtZero ==
  \A i \in 1..Len(calls) :
    /\ calls[i].res.st # "no_return"
    /\ calls[i].res.nof_prev >= 0

\* call i went through the file to its end without reaching its byte budget or
\* its end_time, and returned
EndOfFileBeforeTarget(i) ==
  /\ calls[i].res.read
  /\ calls[i].res.st = "ok"
  /\ ~calls[i].res.short
  /\ calls[i].res.stop \in {"eof", "none"}
\* the whole frames among the bytes call i put in its byte chest
FramesTaken(i) ==
  LET n == Len(calls[i].res.taken) \div frame_size(desc)
  IN [k \in 1..n |-> SubSeq(calls[i].res.taken,
                            (k - 1) * frame_size(desc) + 1, k * frame_size(desc))]
\* call i read a whole frame that belongs to its window
ReadWholeFrame(i) ==
  \E k \in 1..Len(FramesTaken(i)) :
    \/ desc.spts = 0
    \/ /\ IsTimestampField(desc, FramesTaken(i)[k])
       /\ UnpackTimestamp(desc, FramesTaken(i)[k]) > calls[i].start_time

\* C9: a call that reaches end of file before its byte budget or end_time
\* returns the samples of the whole frames read so far, not an empty result,
\* for samples_per_ts = 0 as for samples_per_ts > 0.
C9_PartialResultsAtEndOfFile ==
  \A i \in 1..Len(calls) :
    (EndOfFileBeforeTarget(i) /\ ReadWholeFrame(i)) => calls[i].res.data # <<>>

\* C10: a call whose read at the computed offset comes back short fails with
\* an error; it does not return empty arrays.
C10_ShortReadIsFatal ==
  \A i \in 1..Len(calls) : calls[i].res.short => calls[i].res.st # "ok"
\* call i asks for a window that starts after the acquisition's end
StartsAfterEnd(i) == calls[i].start_time > acquisition_duration(desc)

\* C11: a call with start_time greater than the acquisition duration returns
\* empty sample and timestamp arrays without raising, for samples_per_ts = 0
\* and > 0, on a fresh cursor and on a resumed cursor.
C11_LateWindowIsEmpty ==
  \A i \in 1..Len(calls) :
    StartsAfterEnd(i) =>
      /\ calls[i].res.st = "ok"
      /\ calls[i].res.data = <<>>
      /\ calls[i].res.times = <<>>

\* a late window was asked on a cursor that an earlier call moved into a file
\* without embedded timestamps
C11_LateCallOnResumedCursor ==
  /\ Len(calls) = 2
  /\ desc.spts = 0
  /\ calls[1].res.data # <<>>
  /\ calls[2].before.last_index # None
  /\ StartsAfterEnd(2)
  /\ calls[2].res.st = "ok"

\* call i raised DataCorruptedException
RaisedCorrupted(i) == calls[i].res.st = "DataCorruptedException"

\* C12: once a call on a cursor has raised DataCorruptedException, no later
\* call on the same cursor returns samples.
C12_CorruptionIsFatalForLaterCalls ==
  \A i \in 1..Len(calls) : \A j \in 1..Len(calls) :
    (i < j /\ RaisedCorrupted(i)) =>
      ~(calls[j].res.st = "ok" /\ calls[j].res.data # <<>>)

\* call i found an interface outside {0, 1, 2, 3}, or no payload-size field
\* for its interface
BadTransport(i) ==
  \/ calls[i].comp.interface \notin 0..3
  \/ ~calls[i].comp.has_dps
\* comp_status as call i left it
CursorAfter(i) ==
  IF i = Len(calls) THEN comp_status
  ELSE [calls[i + 1].before EXCEPT !.is_first_chunk = calls[i].before.is_first_chunk]

\* C13: with an interface outside {0, 1, 2, 3}, or without the payload-size
\* field of the active transport, the call fails before reading the raw file
\* and leaves every cursor field as it was before the call.
C13_BadTransportLeavesCursor ==
  \A i \in 1..Len(calls) :
    BadTransport(i) =>
      /\ calls[i].res.st \notin {"ok", "None", "None, None"}
      /\ ~calls[i].res.read
      /\ CursorAfter(i) = calls[i].before

\* a call with a bad transport was made on a cursor that an earlier call had
\* moved
C13_BadTransportOnUsedCursor ==
  /\ Len(calls) = 2
  /\ BadTransport(2)
  /\ calls[1].res.data # <<>>
  /\ calls[2].before.last_index # None

\* call i met one of the fatal conditions: an unknown transport selector, an
\* unsupported actuator or algorithm, a short read
FatalCondition(i) ==
  \/ calls[i].comp.interface \notin 0..3
  \/ /\ ~BadTransport(i)
     /\ ~calls[i].comp.supported
     /\ ~(calls[i].comp.c_type = "actuator" /\ calls[i].comp.has_odr)
  \/ calls[i].res.short

\* C14: every fatal condition reaches the caller as a raised exception of a
\* specific type: never a return of (None, None), of None or of empty arrays,
\* and never the generic RuntimeError.
C14_FatalConditionsAreTyped ==
  \A i \in 1..Len(calls) :
    FatalCondition(i) =>
      calls[i].res.st \notin {"ok", "None", "None, None", "RuntimeError"}

\* what each of the first k calls for component c returns, and the cursor it
\* leaves, when the calls for c are made alone on a fresh cursor
RECURSIVE AloneCalls(_, _)
AloneCalls(c, k) ==
  IF k = 0 THEN <<>>
  ELSE CHOOSE ret \in {
         Append(done,
                get_data_and_timestamps_batch(
                  desc[c],
                  prepare_cursor(desc[c],
                                 IF k = 1 THEN fresh_cursor(desc[c]) ELSE done[k - 1].cs,
                                 k = 1),
                  CallsOf(c)[k].start_time, CallsOf(c)[k].end_time))
         : done \in {AloneCalls(c, k - 1)}} : TRUE

SynthesizedTimes(i) ==
  /\ desc.spts = 0
  /\ desc.writes_first_chunk
  /\ calls[i].res.st = "ok"
  /\ calls[i].res.times # <<>>
\* the origin C16 gives to call i
ClaimedOrigin(i) ==
  IF i = 1 THEN calls[i].before.ioffset
  ELSE calls[i].before.ioffset + frame_period(desc)

\* C16: without embedded timestamps, the timestamps of a call are origin,
\* origin + frame_period, ..., one per decoded frame, with origin = ioffset
\* for the first chunk and ioffset + frame_period for every later chunk.
C16_SynthesizedTimesContinue ==
  \A i \in 1..Len(calls) :
    SynthesizedTimes(i) =>
      /\ Len(calls[i].res.times) = Len(calls[i].res.data)
      /\ \A k \in 1..Len(calls[i].res.times) :
           calls[i].res.times[k] = ClaimedOrigin(i) + (k - 1) * frame_period(desc)

\* the bytes of the last frame call i took from its byte chest
LastFrame(i) ==
  SubSeq(calls[i].res.consumed,
         Len(calls[i].res.consumed) - frame_size(desc) + 1,
         Len(calls[i].res.consumed))
\* the samples in the bytes of a frame
SamplesOf(frame) ==
  [k \in 1..desc.spts |-> SubSeq(frame, (k - 1) * desc.sbytes + 1, k * desc.sbytes)]
\* call i returned samples of a file with embedded timestamps, the last of
\* them from the last frame it took from its byte chest
EmittedStampedFrames(i) ==
  /\ desc.spts >= 1
  /\ calls[i].res.st = "ok"
  /\ Len(calls[i].res.data) >= desc.spts
  /\ Len(calls[i].res.consumed) >= frame_size(desc)
  /\ SubSeq(calls[i].res.data, Len(calls[i].res.data) - desc.spts + 1,
            Len(calls[i].res.data)) = SamplesOf(LastFrame(i))
\* the last element of the timestamp array call i returned
LastReturnedTime(i) == calls[i].res.times[Len(calls[i].res.times)]
\* the embedded timestamp of the last frame call i emitted
LastEmittedFrameTimestamp(i) == UnpackTimestamp(desc, LastFrame(i))

\* C17 as stated: a call that emits samples leaves in ioffset the last element
\* of the timestamp array it returned, for samples_per_ts = 1 and > 1.
C17_IoffsetIsLastReturnedTime ==
  \A i \in 1..Len(calls) :
    EmittedStampedFrames(i) =>
      CursorAfter(i).ioffset * TimeScale(desc) = LastReturnedTime(i)

\* C17: a call that emits samples leaves in ioffset the timestamp of the last
\* frame it emitted: the last returned timestamp for samples_per_ts = 1 and,
\* for samples_per_ts > 1 and timestamps decoded from the file's timestamp
\* fields, a time after the last returned timestamp.
C17_IoffsetIsLastFrameTimestamp ==
  \A i \in 1..Len(calls) :
    EmittedStampedFrames(i) =>
      /\ CursorAfter(i).ioffset = LastEmittedFrameTimestamp(i)
      /\ desc.spts = 1 =>
           CursorAfter(i).ioffset * TimeScale(desc) = LastReturnedTime(i)
      /\ (desc.spts > 1 /\ ~calls[i].res.garbled) =>
           CursorAfter(i).ioffset * TimeScale(desc) > LastReturnedTime(i)

\* two calls emitted frames of several samples each, the second continuing
\* from the ioffset the first left
C17_IoffsetCarriedOver ==
  /\ Len(calls) = 2
  /\ desc.spts > 1
  /\ EmittedStampedFrames(1)
  /\ EmittedStampedFrames(2)
  /\ calls[2].before.ioffset = LastEmittedFrameTimestamp(1)

\* the timestamps call c kept for its frames, after the origin its first
\* frame follows: prev_timestamp on a first chunk that got one, else ioffset
KeptTimestamps(c) ==
  LET frames == split_frames(desc, c.from, c.to, <<>>)
      origin == IF c.start_time # 0 /\ c.before.is_first_chunk /\ c.prev_timestamp # None
                THEN c.prev_timestamp ELSE c.before.ioffset
  IN <<origin>> \o [i \in 1..Len(frames) |-> frames[i].ts]
\* call c interpolated sample times between timestamps that are numbers
Interpolated(c) ==
  /\ desc.sp > 1
  /\ \A i \in 1..Len(KeptTimestamps(c)) : KeptTimestamps(c)[i] # NaN
\* t_start of C18 as stated, and with the code's two conditions
StatedStart(fp, t0, t1) == IF 100 * (t1 - t0) > 133 * fp THEN t1 - fp ELSE t0
GuardedStart(fp, t0, t1) ==
  IF fp > 0 /\ 100 * Abs(t1 - t0) > 133 * fp THEN t1 - fp ELSE t0
\* t_start + k (t1 - t_start) / N for k = 0..N-1 and each frame of call c, as
\* numerators over N, for t_start as stated (guarded = FALSE) or guarded
EvenlySpaced(c, guarded) ==
  LET N == desc.sp
      fp == sensor_frame_period(desc)
      tss == KeptTimestamps(c)
      start(i) == IF guarded THEN GuardedStart(fp, tss[i], tss[i + 1])
                  ELSE StatedStart(fp, tss[i], tss[i + 1])
  IN [n \in 1..(N * (Len(tss) - 1)) |->
        LET i == ((n - 1) \div N) + 1
            k == (n - 1) % N
        IN N * start(i) + k * (tss[i + 1] - start(i))]

\* C18 as stated: with samples_per_ts = N > 1 the sample times of each frame
\* are t_start + k (t1 - t_start) / N, k = 0..N-1, with t_start = t1 -
\* frame_period when t1 - t0 exceeds 1.33 frame_period, and t0 otherwise.
C18_InterpolationBySignedStep ==
  \A n \in 1..Len(calls) :
    Interpolated(calls[n]) => calls[n].res.times = EvenlySpaced(calls[n], FALSE)

\* C18: with samples_per_ts = N > 1 the sample times of each frame are
\* t_start + k (t1 - t_start) / N, k = 0..N-1, with t_start = t1 - frame_period
\* when frame_period > 0 and |t1 - t0| exceeds 1.33 frame_period, and t0
\* otherwise; of these the call returns the ones that are not -1.
C18_InterpolationByAbsoluteStep ==
  \A n \in 1..Len(calls) :
    Interpolated(calls[n]) =>
      calls[n].res.times
        = SelectSeq(EvenlySpaced(calls[n], TRUE), LAMBDA t : t # (0 - 1) * desc.sp)

\* a call interpolated a frame one frame period after its predecessor and a
\* frame more than 1.33 frame periods after its predecessor, and returned
\* every sample
C18_RegularAndLateFrames ==
  /\ Len(calls) = 2
  /\ Interpolated(calls[2])
  /\ sensor_frame_period(desc) > 0
  /\ LET tss == KeptTimestamps(calls[2])
         fp == sensor_frame_period(desc)
     IN /\ Len(tss) = 3
        /\ tss[2] - tss[1] = fp
        /\ 100 * (tss[3] - tss[2]) > 133 * fp
        /\ Len(calls[2].res.times) = 2 * desc.sp

\* the timestamps call c kept for its frames: the returned times when
\* samples_per_ts = 1
FrameTimes(c) == IF desc.sp = 1 THEN c.res.times ELSE Tail(KeptTimestamps(c))
\* the values call c returned for its m-th frame
ReturnedValues(c, m) == SubSeq(c.res.data, (m - 1) * desc.sp + 1, m * desc.sp)
\* call c ran the consistency check and returned a sample for every sample
\* of its frames
CheckedCall(c) ==
  /\ check_timestamps(desc)
  /\ Len(c.res.data) = desc.sp * (c.to - c.from + 1)
  /\ Len(c.res.times) = Len(c.res.data)
\* |t - prev| is below 0.1 frame_period, above 10 frame_period, or not a number
OutOfRange(prev, t) ==
  LET fp == sensor_frame_period(desc)
  IN \/ prev = NaN
     \/ t = NaN
     \/ 10 * Abs(t - prev) < fp
     \/ Abs(t - prev) > 10 * fp
\* the m-th frame of call c was repaired
Repaired(c, m) ==
  /\ m > 1
  /\ OutOfRange(FrameTimes(c)[m - 1], desc.stamps[c.from + m - 1])

\* C19: with timestamp recovery on a Sensor that is not an MLC/ISPU channel,
\* every frame after the first of a call whose timestamp is out of range of the
\* timestamp kept for the frame before it is returned with zero values and with
\* that timestamp plus frame_period, and every other frame of the call is
\* returned with its own values and timestamp.
C19_CorruptedFramesAreRepaired ==
  \A n \in 1..Len(calls) :
    CheckedCall(calls[n]) =>
      \A m \in 1..(calls[n].to - calls[n].from + 1) :
        LET c == calls[n]
            i == c.from + m - 1
        IN IF Repaired(c, m)
           THEN /\ ReturnedValues(c, m) = [j \in 1..desc.sp |-> 0]
                /\ FrameTimes(c)[m]
                     = FloatAdd(FrameTimes(c)[m - 1], sensor_frame_period(desc))
           ELSE /\ ReturnedValues(c, m) = FrameValues(desc, i)
                /\ FrameTimes(c)[m] = desc.stamps[i]

\* a call returned a frame as it is, then a repaired frame, then a frame in
\* range of the repaired timestamp as it is
C19_RepairedBetweenGoodFrames ==
  /\ Len(calls) = 1
  /\ desc.sp = 1
  /\ CheckedCall(calls[1])
  /\ calls[1].to = 3
  /\ desc.stamps[1] # NaN
  /\ Repaired(calls[1], 2)
  /\ ~Repaired(calls[1], 3)
  /\ calls[1].res.data = <<1, 0, 3>>

\* call c decoded frames of one sample each without the consistency check
DirectTimes(c) ==
  /\ desc.sp = 1
  /\ ~check_timestamps(desc)
  /\ c.res.times # <<>>

\* C20: with embedded timestamps, samples_per_ts = 1 and no timestamp repair,
\* the k-th returned timestamp is the embedded timestamp of the k-th frame the
\* call emitted, and the k-th returned value is that frame's sample.
C20_TimestampsAreTheEmbeddedOnes ==
  \A n \in 1..Len(calls) :
    DirectTimes(calls[n]) =>
      /\ calls[n].res.times
           = [k \in 1..(calls[n].to - calls[n].from + 1) |->
                desc.stamps[calls[n].from + k - 1]]
      /\ calls[n].res.data
           = [k \in 1..(calls[n].to - calls[n].from + 1) |->
                FrameValues(desc, calls[n].from + k - 1)[1]]

\* a first chunk that was given a previous timestamp and a later chunk, each
\* of frames stamped otherwise than the origin the chunk started from
C20_FirstAndLaterChunk ==
  /\ Len(calls) = 2
  /\ DirectTimes(calls[1])
  /\ DirectTimes(calls[2])
  /\ calls[1].before.is_first_chunk
  /\ calls[1].prev_timestamp # None
  /\ calls[1].prev_timestamp # desc.stamps[1]
  /\ ~calls[2].before.is_first_chunk
  /\ calls[2].to > calls[2].from
  /\ calls[2].before.ioffset # desc.stamps[calls[2].from + 1]

\* the scale factor C21 gives column c of the component's values
StatedScale(c) ==
  IF desc.c_type \in {"Sensor", "Algorithm"} THEN comp_status.sensitivity
  ELSE IF NameContains(TelemetryChannels[c], "i") THEN comp_status.current
  ELSE comp_status.voltage
\* the component is one whose values the decoder returns
Scaled == desc.c_type \in {"Sensor", "Algorithm"}
            \/ desc.name \in {"fast_mc_telemetries", "slow_mc_telemetries"}

\* C21: with raw_flag the returned values are the decoded values in their
\* native datatype, for every component kind; without it every returned
\* value is the decoded value times the sensitivity of the Sensor or
\* Algorithm, or times the current or voltage scale factor of its channel for
\* Actuator telemetry.
C21_RawKeptElseScaled ==
  \A n \in 1..Len(calls) :
    Scaled =>
      /\ calls[n].res.st = "ok"
      /\ desc.raw_flag =>
           /\ calls[n].res.values = desc.data
           /\ calls[n].res.dtype = data_type_string(desc.name, comp_status)
      /\ ~desc.raw_flag =>
           calls[n].res.values
             = [r \in 1..Len(desc.data) |->
                  [c \in 1..Len(desc.data[r]) |-> desc.data[r][c] * StatedScale(c)]]

\* the first call, for [0, end) on a fresh cursor, returned from a file of
\* npk payloads of 64 bytes
WholeFileCall(npk) ==
  /\ calls # <<>>
  /\ desc.npk = npk
  /\ calls[1].start_time = 0
  /\ calls[1].end_time = -1
  /\ calls[1].res.st = "ok"
\* the first call returned n samples with non-decreasing times, the samples of
\* the k-th frame timed in the frame period that ends at its timestamp
ReturnedFrames(n) ==
  LET r == calls[1].res
  IN /\ Len(r.data) = n
     /\ Len(r.times) = n
     /\ \A k \in 1..(n - 1) : r.times[k] <= r.times[k + 1]
     /\ \A k \in 1..n :
          LET t1 == FrameTimestamp(desc, (k - 1) \div desc.spts)
          IN /\ r.times[k] >= (t1 - frame_period(desc)) * TimeScale(desc)
             /\ r.times[k] < t1 * TimeScale(desc)
             /\ r.data[k][1] \div frame_size(desc) = (k - 1) \div desc.spts

\* C22 as stated: the file of 3 packets of payload 64, samples_per_ts = 10,
\* dim = 3, float32, read for [0, end) on a fresh cursor, returns 30 samples.
C22_ThreePacketsThirtySamples ==
  WholeFileCall(3) => Len(calls[1].res.data) = 30

\* C22: that file holds one whole frame of 128 bytes and the call returns its
\* 10 samples, timed in non-decreasing order before the frame's timestamp; a
\* file of 6 such packets holds three frames and the call returns 30 samples
\* over the three frame timestamps.
C22_OneFrameTenSamples ==
  /\ WholeFileCall(3) => ReturnedFrames(10)
  /\ WholeFileCall(6) => ReturnedFrames(30)

\* both files were read for [0, end): here the one of three packets
C22_ThreePacketsRead ==
  /\ WholeFileCall(3)
  /\ Len(calls) = 1
  /\ calls[1].res.stop = "eof"
  /\ calls[1].res.data # <<>>

\* the call decoded its component
GeometryResolved == calls # <<>> /\ calls[1].res.st = "ok"

\* C23 as stated: for every component kind the timestamp size is 8 exactly
\* when the samples_per_ts the call read for the component is not 0, and 0
\* otherwise.
C23_TimestampIffSamplesPerTs ==
  GeometryResolved =>
    calls[1].res.timestamp_byte_size
      = (IF calls[1].res.s_samples_per_ts # 0 THEN 8 ELSE 0)

\* C23: for a Sensor and an Actuator with odr the timestamp size is 8 exactly
\* when the samples_per_ts of the descriptor (1 for an Actuator that gives
\* none) is not 0, and 0 otherwise; for Actuator telemetry without odr it is
\* 8 and for an FFT Algorithm it is 0, whatever samples_per_ts is, the FFT
\* being decoded with samples_per_ts = 1.
C23_TimestampSizeByKind ==
  GeometryResolved =>
    LET g == calls[1].res
    IN IF desc.c_type = "Sensor" \/ (desc.c_type = "Actuator" /\ desc.has_odr)
       THEN g.timestamp_byte_size = (IF g.s_samples_per_ts # 0 THEN 8 ELSE 0)
       ELSE IF desc.c_type = "Actuator"
       THEN g.timestamp_byte_size = 8
       ELSE g.timestamp_byte_size = 0 /\ g.samples_per_ts = 1

\* an FFT Algorithm whose descriptor gives samples_per_ts = 1 was decoded
C23_FftWithSamplesPerTs ==
  /\ GeometryResolved
  /\ desc.c_type = "Algorithm"
  /\ desc.spts.form = "int"
  /\ desc.spts.val = 1

\* call i asked for an end_time of -1 or after the acquisition's end
OpenEnded(i) ==
  \/ calls[i].end_time = -1
  \/ calls[i].end_time > acquisition_duration(desc)
\* what call i returns when asked for end_time = the acquisition duration
UpToDuration(i) ==
  get_data_and_timestamps_batch(desc, calls[i].before, calls[i].start_time,
                                acquisition_duration(desc))

\* C24: a call with end_time -1 or greater than the acquisition duration
\* returns the arrays and leaves the cursor of the call with end_time equal to
\* the acquisition duration, for samples_per_ts = 0 and > 0.
C24_OpenEndIsDuration ==
  \A i \in 1..Len(calls) :
    OpenEnded(i) =>
      \A r \in {UpToDuration(i)} :
        /\ calls[i].res.st = r.st
        /\ calls[i].res.data = r.data
        /\ calls[i].res.times = r.times
        /\ CursorAfter(i) = r.cs

\* call i returned normally after one of the reader's cursor stores
StoredCursor(i) == calls[i].res.st = "ok" /\ calls[i].res.stop # "none"
\* call i returned normally after stopping on its byte budget or its end_time
TargetStop(i) ==
  calls[i].res.st = "ok" /\ calls[i].res.stop \in {"budget", "end_time"}
\* call i returned normally after stopping on its byte budget, on its end_time
\* or on a frame less than one frame period before the acquisition's end
StoppedBeforeEndOfFile(i) ==
  calls[i].res.st = "ok" /\ calls[i].res.stop \in {"budget", "end_time", "near_end"}
\* the four bytes at file offset idx are the counter of the packet that
\* starts there
CounterAt(idx) ==
  /\ idx % cmplt_pkt_size(desc) = 0
  /\ UnpackCounter(desc, ReadFile(desc, idx, data_protocol_size))
       = PacketCounter(desc, idx \div cmplt_pkt_size(desc))

UnreadTail(c) == ReadFile(desc, c.last_index, c.missing_bytes)

\* C26: after every call the stored missing_bytes is smaller than the payload
\* size of one packet, and the bytes in [last_index, last_index +
\* missing_bytes) hold no counter byte.
C26_MissingBytesInsideOnePayload ==
  \A i \in 1..Len(calls) :
    \A c \in {CursorAfter(i)} :
      (c.missing_bytes # None /\ c.last_index # None) =>
        /\ c.missing_bytes < desc.dps
        /\ \A j \in 1..Len(UnreadTail(c)) : ~IsCounterByte(UnreadTail(c)[j])

\* C27: every packet whose counter a call reads from the file is compared with
\* the previously validated counter, also in a call that starts by consuming
\* the leftover bytes of a straddling packet.
C27_EveryCounterReadIsChecked ==
  \A i \in 1..Len(calls) : calls[i].res.unchecked = <<>>

\* every counter of the file is the one before it plus the payload size, the
\* file ends with a whole packet, and the cursor starts without a counter
CountersAllValid == desc.skip_at = -1 /\ desc.tail = 0 /\ ~desc.seeded

\* C28: on a file whose counters all increase by the payload size, no call of
\* any sequence of calls raises DataCorruptedException and none skips a packet
\* as a restart artifact.
C28_ValidFileNeverRejected ==
  CountersAllValid =>
    \A i \in 1..Len(calls) :
      /\ calls[i].res.st # "DataCorruptedException"
      /\ calls[i].res.tolerated = <<>>

\* C29: the last_index a call stores is greater than or equal to the
\* last_index the call started from.
C29_LastIndexNeverDecreases ==
  \A i \in 1..Len(calls) :
    CursorAfter(i).last_index # None =>
      CursorAfter(i).last_index >= Get0(calls[i].before.last_index)

\* call i started with the leftover bytes of a straddling packet
StartedInSamePacket(i) ==
  /\ Get0(calls[i].before.last_index) # 0
  /\ Get0(calls[i].before.saved_bytes) # 0
  /\ Get0(calls[i].before.saved_bytes) <= Get0(calls[i].before.missing_bytes)
\* a call that started with the leftover bytes of a straddling packet read
\* further packets, stopped on its target and stored a later last_index
C29_SamePacketThenFurtherPackets ==
  /\ Len(calls) = 2
  /\ StartedInSamePacket(2)
  /\ TargetStop(2)
  /\ Len(calls[2].res.taken) > calls[2].before.missing_bytes
  /\ comp_status.last_index > calls[2].before.last_index

\* the frame of the file each returned sample of call i lies in
EmittedFrames(i) ==
  [k \in 1..Len(calls[i].res.data) |-> calls[i].res.data[k][1] \div frame_size(desc)]
\* call i returned normally, with samples that are all data bytes of frames of
\* the file, on a file with timestamps
EmittedWholeFrames(i) ==
  /\ desc.spts > 0
  /\ calls[i].res.st = "ok"
  /\ ~calls[i].res.garbled
  /\ calls[i].res.data # <<>>
  /\ \A k \in 1..Len(calls[i].res.data) :
       /\ calls[i].res.data[k][1] >= 0
       /\ calls[i].res.data[k][1] % frame_size(desc) < dataframe_byte_size(desc)
\* the end_time call i reads up to (lines 949-953)
EffectiveEnd(i) ==
  IF calls[i].end_time = -1 \/ calls[i].end_time > acquisition_duration(desc)
  THEN acquisition_duration(desc) ELSE calls[i].end_time
\* the offset in the file's payload of the byte at file offset idx
PayloadOffset(idx) ==
  (idx \div cmplt_pkt_size(desc)) * desc.dps
    + Max((idx % cmplt_pkt_size(desc)) - data_protocol_size, 0)
LastEmitted(i) == EmittedFrames(i)[Len(EmittedFrames(i))]

\* frames are emitted in file order
InFileOrder(i) ==
  \A j, k \in 1..Len(EmittedFrames(i)) :
    j < k => EmittedFrames(i)[j] <= EmittedFrames(i)[k]
\* only frames stamped after start_time are emitted
AfterStart(i) ==
  \A k \in 1..Len(EmittedFrames(i)) :
    FrameTimestamp(desc, EmittedFrames(i)[k]) > calls[i].start_time
\* no frame is emitted after one stamped at or after end_time, and a call that
\* stopped on its end_time emitted such a frame last
StopsAtEnd(i) ==
  /\ \A k \in 1..Len(EmittedFrames(i)) :
       EmittedFrames(i)[k] # LastEmitted(i)
         => FrameTimestamp(desc, EmittedFrames(i)[k]) < EffectiveEnd(i)
  /\ calls[i].res.stop = "end_time"
       => FrameTimestamp(desc, LastEmitted(i)) >= EffectiveEnd(i)
\* the cursor of a call that stopped on its end_time is on the first byte
\* after the last emitted frame
LaterFramesLeft(i) ==
  calls[i].res.stop = "end_time"
    => PayloadOffset(CursorAfter(i).last_index)
         = (LastEmitted(i) + 1) * frame_size(desc)

\* C30: for samples_per_ts > 0 a call emits frames in file order, only frames
\* stamped after start_time, and stops after emitting the first frame stamped
\* at or after end_time, leaving every later frame for the next call.
C30_FramesInOrderUpToEndTime ==
  \A i \in 1..Len(calls) :
    EmittedWholeFrames(i) =>
      /\ InFileOrder(i)
      /\ AfterStart(i)
      /\ StopsAtEnd(i)
      /\ LaterFramesLeft(i)

\* the index in the file of the k-th sample call i returned (samples_per_ts = 0)
ReturnedSampleIndex(i, k) == calls[i].res.data[k][1] \div desc.sbytes
\* the first and the last sample index of the window of call i, the last one
\* clamped to the samples of the file (lines 925-938)
WindowFirstSample(i) == desc.odr * calls[i].start_time
WindowLastSample(i) ==
  (IF calls[i].end_time = -1 THEN tot_data_samples(desc)
   ELSE Min(desc.odr * calls[i].end_time, tot_data_samples(desc))) - 1

\* C31: with samples_per_ts = 0 on a fresh cursor, a call for
\* [start_time, end_time) returns the samples of the file with indices
\* floor(rate x start_time) up to floor(rate x end_time) - 1, clamped to the
\* samples of the file.
C31_WindowSamplesByIndex ==
  (/\ Len(calls) >= 1
   /\ desc.spts = 0
   /\ CountersAllValid
   /\ calls[1].res.read)
    => /\ calls[1].res.st = "ok"
       /\ Len(calls[1].res.data) = WindowLastSample(1) - WindowFirstSample(1) + 1
       /\ \A k \in 1..Len(calls[1].res.data) :
            ReturnedSampleIndex(1, k) = WindowFirstSample(1) + k - 1

\* the timestamps call i returned are non-decreasing
NonDecreasing(i) ==
  \A j, k \in 1..Len(calls[i].res.times) :
    j < k => calls[i].res.times[j] <= calls[i].res.times[k]
\* the latest call before call i that returned timestamps, 0 if none
RECURSIVE PreviousWithTimes(_)
PreviousWithTimes(i) ==
  IF i <= 1 THEN 0
  ELSE IF calls[i - 1].res.times # <<>> THEN i - 1 ELSE PreviousWithTimes(i - 1)
\* call i starts at or after the last timestamp of the call before it
StartsAfterPrevious(i) ==
  \A p \in {PreviousWithTimes(i)} :
    (p # 0 /\ calls[i].res.times # <<>>) =>
      calls[i].res.times[1] >= calls[p].res.times[Len(calls[p].res.times)]

\* C32: on a file with timestamps that are strictly increasing and not before
\* the initial ioffset, the timestamps a call returns are non-decreasing, and
\* the first timestamp of a call is not smaller than the last timestamp of
\* the previous call on the cursor.
C32_TimestampsNeverGoBack ==
  (desc.spts > 0 /\ CountersAllValid) =>
    \A i \in 1..Len(calls) : NonDecreasing(i) /\ StartsAfterPrevious(i)

\* the timestamps of the call before call n end no later than call n starts
DecodedAfterPrevious(n) ==
  (n > 1 /\ calls[n].res.times # <<>> /\ calls[n - 1].res.times # <<>>) =>
    calls[n].res.times[1] >= calls[n - 1].res.times[Len(calls[n - 1].res.times)]

\* C32 on the decoder: the timestamps decoded from frames with strictly
\* increasing timestamps never go back, within a call and from a call to the
\* next.
C32_DecodedTimestampsNeverGoBack ==
  \A n \in 1..Len(calls) : NonDecreasing(n) /\ DecodedAfterPrevious(n)

\* C33: a call that returns data returns as many samples as timestamps, and
\* samples_per_ts of them for each whole frame it decoded.
C33_RowsAreFramesTimesSamplesPerTs ==
  \A n \in 1..Len(calls) :
    calls[n].res.data # <<>> =>
      /\ Len(calls[n].res.data) = Len(calls[n].res.times)
      /\ Len(calls[n].res.data) = desc.sp * (calls[n].to - calls[n].from + 1)

\* the timestamps the decode step of call c kept for its frames
DecodedFrameTimestamps(c) ==
  LET frames == split_frames(desc, c.from, c.to, <<>>)
  IN [i \in 1..Len(frames) |-> frames[i].ts]
\* t differs from prev by at least 0.1 frame periods and at most 10
WithinRange(prev, t) ==
  /\ prev # NaN
  /\ t # NaN
  /\ 10 * Abs(t - prev) >= sensor_frame_period(desc)
  /\ Abs(t - prev) <= 10 * sensor_frame_period(desc)

\* C34: with timestamp recovery enabled and frame_period > 0, after the decode
\* step of a call every two consecutive frame timestamps of the call differ by
\* at least 0.1 x frame_period and at most 10 x frame_period.
C34_ConsecutiveTimestampsWithinRange ==
  \A n \in 1..Len(calls) :
    (check_timestamps(desc) /\ sensor_frame_period(desc) > 0) =>
      \A i \in 2..Len(DecodedFrameTimestamps(calls[n])) :
        WithinRange(DecodedFrameTimestamps(calls[n])[i - 1],
                    DecodedFrameTimestamps(calls[n])[i])

\* timestamp recovery is disabled, or the component is an MLC/ISPU channel,
\* an Algorithm or an Actuator
NoConsistencyCheck ==
  \/ ~desc.recovery
  \/ desc.mlc_ispu
  \/ desc.c_type \in {"Algorithm", "Actuator"}
\* the frames call c decoded, as the decode step left them
DecodedFrames(c) == split_frames(desc, c.from, c.to, <<>>)

\* C35: with timestamp recovery disabled, or for an MLC/ISPU channel, an
\* Algorithm or an Actuator, every frame of a call keeps its decoded sample
\* values and its embedded timestamp, whatever the deltas between consecutive
\* timestamps.
C35_UncheckedFramesAreKept ==
  \A n \in 1..Len(calls) :
    NoConsistencyCheck =>
      /\ \A m \in 1..Len(DecodedFrames(calls[n])) :
           /\ DecodedFrames(calls[n])[m].vals = FrameValues(desc, calls[n].from + m - 1)
           /\ DecodedFrames(calls[n])[m].ts = desc.stamps[calls[n].from + m - 1]
      /\ Len(calls[n].res.data) = desc.sp * (calls[n].to - calls[n].from + 1)
           => \A m \in 1..(calls[n].to - calls[n].from + 1) :
                ReturnedValues(calls[n], m) = FrameValues(desc, calls[n].from + m - 1)
      /\ desc.sp = 1
           => calls[n].res.times
                = [m \in 1..(calls[n].to - calls[n].from + 1) |->
                     desc.stamps[calls[n].from + m - 1]]

\* a component with timestamp recovery enabled that is an Actuator or an
\* MLC/ISPU channel decoded a frame stamped out of range of the frame before
C35_OutOfRangeFrameKept ==
  /\ Len(calls) = 1
  /\ desc.recovery
  /\ desc.mlc_ispu \/ desc.c_type = "Actuator"
  /\ calls[1].from = 1
  /\ calls[1].to >= 2
  /\ desc.stamps[1] = 3
  /\ desc.stamps[2] = 50
  /\ Len(calls[1].res.data) = desc.sp * calls[1].to

\* call i was made on a cursor whose last_index is at or beyond the end of
\* the file
StartedAtEndOfFile(i) ==
  /\ calls[i].before.last_index # None
  /\ calls[i].before.last_index >= file_size(desc)

\* C36: a call on a cursor whose last_index is at or beyond the end of the
\* file returns empty arrays without raising and leaves last_index as it was.
C36_EndOfFileCallIsEmpty ==
  \A i \in 1..Len(calls) :
    StartedAtEndOfFile(i) =>
      /\ calls[i].res.st = "ok"
      /\ calls[i].res.data = <<>>
      /\ calls[i].res.times = <<>>
      /\ CursorAfter(i).last_index = calls[i].before.last_index

\* a call that read the file to its end was followed by a call that went to
\* the reader and met the end of the file at once
C36_ReadAgainAtEndOfFile ==
  /\ Len(calls) = 2
  /\ calls[1].res.data # <<>>
  /\ StartedAtEndOfFile(2)
  /\ calls[2].res.read
  /\ calls[2].res.stop = "eof"
  /\ calls[2].res.taken = <<>>

RECURSIVE SensorCommands(_, _)
SensorCommands(d, s) ==
  IF s > Len(d.sensor) THEN <<>>
  ELSE [i \in 1..d.sensor[s] |-> [cmd |-> "set_sensor_cmd", id |-> s - 1, sub |-> i - 1]]
       \o SensorCommands(d, s + 1)

RECURSIVE HwTagCommands(_, _)
HwTagCommands(d, t) ==
  IF t > Len(d.hw_tags) THEN <<>>
  ELSE << [cmd |-> IF d.hw_tags[t] THEN "set_hw_tag_enabled_cmd" ELSE "set_hw_tag_disabled_cmd",
           id |-> t - 1, sub |-> 0],
          [cmd |-> "set_hw_tag_label_cmd", id |-> t - 1, sub |-> 0] >>
       \o HwTagCommands(d, t + 1)

CommandsInOrder(d) ==
  << [cmd |-> "set_device_alias_cmd", id |-> 0, sub |-> 0] >>
  \o SensorCommands(d, 1) \o HwTagCommands(d, 1)
  \o [t \in 1..d.sw_tags |-> [cmd |-> "set_sw_tag_label_cmd", id |-> t - 1, sub |-> 0]]

Answered(c) == c.res.ok /\ c.res.data # NoResponse
Sent(k) == [cmd |-> calls[k].cmd, id |-> calls[k].id, sub |-> calls[k].sub]

\* C37: the commands update_device has sent are the leading commands of the
\* fixed order (alias, one set-sensor per sub-sensor of each sensor, status then
\* label of each hardware tag, label of each software tag); every command before
\* the last sent was answered; update_device raises SETCommandError exactly when
\* the last command sent was not answered, and returns True exactly when the
\* whole sequence was sent and answered.
C37_CommandsInOrderUntilFirstFailure ==
  /\ Len(calls) <= Len(CommandsInOrder(desc))
  /\ \A k \in 1..Len(calls) : Sent(k) = CommandsInOrder(desc)[k]
  /\ \A k \in 1..(Len(calls) - 1) : Answered(calls[k])
  /\ (calls # <<>> /\ ~Answered(calls[Len(calls)])) <=>
       comp_status.result \notin {"none", "True"}
  /\ comp_status.result \notin {"none", "True"} =>
       comp_status.result =
         (IF calls[Len(calls)].cmd = "set_hw_tag_disabled_cmd" THEN "set_hw_tag_enabled_cmd"
          ELSE calls[Len(calls)].cmd)
  /\ comp_status.result = "True" <=>
       /\ Len(calls) = Len(CommandsInOrder(desc))
       /\ \A k \in 1..Len(calls) : Answered(calls[k])

C37_RaisedAtHardwareTagLabel ==
  /\ comp_status.result = "set_hw_tag_label_cmd"
  /\ Len(desc.sensor) = 2
  /\ desc.sensor[1] = 0
  /\ desc.sensor[2] = 2
  /\ desc.sw_tags = 1
  /\ Len(calls) = 5
  /\ ~calls[5].res.ok
  /\ calls[5].res.data # NoResponse

\* whether the device accepted the command of call c
Accepted(c) ==
  IF c.op = "set_acquisition_info" THEN c.res.ok /\ c.res.data # NoResponse
  ELSE c.res

\* C38: every set operation returns True when the device accepted the command
\* and raises SETCommandError when it did not; it ends in no other way.
C38_SetReturnsTrueOrRaises ==
  \A k \in 1..Len(calls) :
    IF Accepted(calls[k]) THEN calls[k].out = Return("True")
    ELSE calls[k].out = Raise(calls[k].op)

\* C39: after every call of get_data_and_timestamps that created the
\* _checked.dat copy, however the call ended, the copy has been removed.
C39_CheckedCopyRemovedOnEveryExit ==
  \A k \in 1..Len(calls) : calls[k].created => ~calls[k].checked

====
